---- MODULE Spec2Model ----
(***************************************************************************)
(* Model of the three-tier cognitive control system of the minecraft       *)
(* service: the saliency/perception machine, the perception pipeline, the  *)
(* reflex mode machine with its behaviour selector, and the conscious      *)
(* (OODA) machine with the Brain's decision retry loop.                    *)
(*                                                                         *)
(* Each subsystem has its own specification over the shared variables;     *)
(* a specification leaves the variables of the other subsystems alone.     *)
(***************************************************************************)
EXTENDS Integers, Sequences, FiniteSets, TLC

\* ------------------------------------------------------------------------
\* Bounds of the model
\* ------------------------------------------------------------------------

\* Number of slots of a saliency window (saliency-rules' WINDOW_SIZE, scaled down).
WINDOW_SIZE == 3

\* The slot timer is followed for this many TICKs.
MaxSlot == 4

\* At most this many events are counted per saliency key.
MaxAccepted == 4

\* The wall clock (Date.now()) is followed up to this value.
MaxNow == 1

\* ------------------------------------------------------------------------
\* Values
\* ------------------------------------------------------------------------

\* An optional field that is absent (JavaScript's undefined / null).
Undef == "undef"

EntityIds == {"e1", "e2"}

\* No belief stored for an id (entities.get(id) is undefined).
NoBelief ==
    [id |-> Undef, type |-> Undef, name |-> Undef, position |-> Undef,
     isSneaking |-> Undef, lastUpdatedAt |-> 0]

VARIABLES
    \* --- perception machine (PerceptionContext and the machine's state) ---
    pmState,        \* "idle" | "collecting"
    entities,       \* context.entities: id -> EntityBelief, or NoBelief
    counters,       \* context.counters: key -> CounterState
    currentSlot,    \* context.currentSlot
    now,            \* the wall clock read by Date.now()
    signals,        \* key -> number of signals its rule handed to input.onSignal
    slotTimers,     \* number of intervals of the slotTimer actor that are running
    \* --- history of the perception machine (not program state) ---
    slotLog,        \* key -> events counted in each of the latest WINDOW_SIZE slots, oldest first
    accepted,       \* key -> number of events counted by incrementCounter
    lastRaw,        \* id -> the last entity-bearing raw event of that id, or NoEvent
    upserts,        \* id -> beliefs written for that id so far: 0, 1, or 2 for more
    lastIgnored,    \* why ingestToSaliency left the latest RAW_EVENT uncounted, "none"
                    \* once a counter has changed since: "no_rule" | "predicate"
    idleDrops,      \* the type of the last event the machine dropped in idle since
                    \* the window last advanced, "none" if there was none
    \* --- perception pipeline (PerceptionPipeline's fields and its collaborators) ---
    initialized,    \* this.initialized
    currentFrame,   \* this.currentFrame, NoFrame for null
    apiEntities,    \* the PerceptionAPI's beliefs: id -> belief, or NoBelief
    busRaw,         \* number of raw:<modality>:<kind> events emitted on the event bus
    busPerception,  \* number of `perception` events emitted on the event bus
    \* --- history of the pipeline (not program state) ---
    frames,         \* number of frames ingested while initialized
    lastIngest,     \* the latest such ingest: stages run, the stage that threw, escaped or not
    prevThrownAt,   \* the stage that threw in the ingest before the latest one
    offered,        \* key -> [slot, n]: n events of the key were ingested during that slot
    \* --- reflex mode machine (state value and ReflexMachineContext) ---
    reflexMode,     \* "idle" | "social" | "alert" | "work" | "wander"
    reflexCtx,      \* contextState (now, health, threatScore, lastMessageAt, nearbyPlayers)
                    \* and inFlightActionsCount
    clock,          \* Date.now() as read by the reflex controller
    \* --- history of the reflex machine (not program state) ---
    reflexEntered,  \* the modes entered while the latest event was processed, in order
    reflexActor,    \* ReflexManager.reflexActor: "running" | "null"
    reflexEvent,    \* the type of the latest event sent to the mode machine
    \* --- ReflexManager: its own ReflexContext and the behaviours it runs ---
    mgrCtx,         \* ReflexManager.context: social and attention fields
    lastRunAt,      \* ReflexManager.lastRunAt: behaviour id -> time, 0 when unset
    executing,      \* the number of runs whose executor.execute has not settled
    ranAt,          \* behaviour id -> time its run was last called, 0 for never
    lastTick,       \* the latest selection: who selected and what
    \* --- reflex behaviour selection (one tick of the selector) ---
    selBehaviors,   \* the registered behaviours, in registration order, as they
                    \* evaluate on this tick: inMode, when, score, cooldownMs, lastRunAt
    selNow,         \* Date.now() on this tick
    selPicked,      \* the selector that ran ("none" before) and the index it picked, 0 for null
    \* --- conscious machine (state value, actor status, ConsciousMachineContext) ---
    cState,         \* "idle" | "thinking" | "deciding" | "executing"
    cStatus,        \* "active", or "error" once an invoked actor's error went unhandled
    cCtx,           \* eventQueue, currentEvent (0 for null), retryCount, pendingActions,
                    \* inFlightActions, nextActionId
    cInvoke,        \* the invoked promise outstanding: "none", "buildContext", "callLLM",
                    \* "executePendingActions"
    decideAttempt,  \* Brain.decide's loop variable while callLLM is outstanding, else 0
    \* --- history of the conscious machine (not program state) ---
    enqueuedLog,    \* the events the running machine was sent with ENQUEUE_EVENT, in order
    dequeuedLog,    \* the events dequeueEvent made current, in order
    llmCalls,       \* reasoning-service calls made for the current event
    fatalAt,        \* llmCalls when a call for the current event failed with an
                    \* auth/bad-argument signature, 0 if none did
    lastError,      \* the error of the latest failed decision attempt
    decideOutcomes, \* how each attempt of the latest decide call ended, in order:
                    \* "transient", "fatal", "other" (errors), "null" or "ok"
    decideReturned, \* the number of actions in the response that call returned,
                    \* Absent while it has returned none
    requiredFeedback, \* ids of the actions of that response whose require_feedback is set
    cReports,       \* ids whose ACTION_COMPLETED or ACTION_FAILED the machine has taken
                    \* since it entered executing
    \* --- blackboard (BlackboardState) ---
    blackboard,     \* chatHistory, recentActionHistory, pendingActions
    \* --- history of the blackboard (not program state) ---
    chatAdded,      \* every message given to addChatMessage, in order
    linesAdded,     \* every line given to addActionHistoryLine, in order
    \* --- Brain (context-view.ts) ---
    consciousActor, \* "running", or "null" after destroy
    brainInFlight,  \* this.inFlightActions: the ids, in insertion order
    waitingForFeedbackIds,  \* this.waitingForFeedbackIds
    feedbackDebounceTimer,  \* this.feedbackDebounceTimer, NoTimer for undefined
    feedbackBarrierTimer,   \* this.feedbackBarrierTimer, NoTimer for undefined
    debounceTimeouts,       \* the timeouts enqueueEvent has set that the runtime still
                            \* holds (neither fired nor cleared)
    barrierTimeouts,        \* likewise those processEvent has set
    \* --- history of the Brain (not program state) ---
    brainEvents,    \* number of events Brain.enqueueEvent was called with; the
                    \* n-th of them is event n
    lastFeedback,   \* the latest feedback event that armed the debounce timer (0: none)
                    \* and the time passed since, counted while the timer is armed
    burst,          \* the feedback events since the debounce timer was last armed from
                    \* rest: how many there were (2 for more) and how many
                    \* ENQUEUE_EVENT sends the timer made for them
    processEventCalls,  \* number of calls of Brain.processEvent
    reported,       \* the outcomes the executor reported: how many, and the latest
                    \* one's action id and kind ("completed" | "failed")
    awaitedFor      \* for each action id, the time it has spent in
                    \* waitingForFeedbackIds since it was added (0 when not in it)

perceptionVars ==
    <<pmState, entities, counters, currentSlot, now, signals,
      slotLog, accepted, lastRaw, upserts, lastIgnored, slotTimers, idleDrops>>

pipelineVars ==
    <<initialized, currentFrame, apiEntities, busRaw, busPerception,
      frames, lastIngest, prevThrownAt, offered>>

reflexVars == <<reflexMode, reflexCtx, clock, reflexEntered, reflexActor, reflexEvent>>

\* What the transitions of each subsystem leave alone.
selectVars == <<selBehaviors, selNow, selPicked>>

consciousVars ==
    <<cState, cStatus, cCtx, cInvoke, decideAttempt,
      enqueuedLog, dequeuedLog, llmCalls, fatalAt, lastError,
      decideOutcomes, decideReturned, requiredFeedback, cReports>>

blackboardVars == <<blackboard, chatAdded, linesAdded>>

managerVars == <<mgrCtx, lastRunAt, executing, ranAt, lastTick>>

brainVars ==
    <<consciousActor, brainInFlight, waitingForFeedbackIds,
      feedbackDebounceTimer, feedbackBarrierTimer, debounceTimeouts, barrierTimeouts,
      brainEvents, lastFeedback, burst, processEventCalls, reported, awaitedFor>>

outsidePerception ==
    <<pipelineVars, reflexVars, selectVars, consciousVars, blackboardVars, brainVars,
      managerVars>>
outsidePipeline ==
    <<reflexVars, selectVars, consciousVars, blackboardVars, brainVars, managerVars>>
outsideReflex ==
    <<perceptionVars, pipelineVars, selectVars, consciousVars, blackboardVars, brainVars,
      managerVars>>
outsideSelect ==
    <<perceptionVars, pipelineVars, reflexVars, consciousVars, blackboardVars, brainVars,
      managerVars>>
outsideConscious ==
    <<perceptionVars, pipelineVars, reflexVars, selectVars, blackboardVars, brainVars,
      managerVars>>
outsideBlackboard ==
    <<perceptionVars, pipelineVars, reflexVars, selectVars, consciousVars, brainVars,
      managerVars>>
outsideBrain == <<perceptionVars, pipelineVars, reflexVars, selectVars, managerVars>>
outsideManager ==
    <<perceptionVars, pipelineVars, selectVars, consciousVars, blackboardVars, brainVars>>

vars ==
    <<perceptionVars, pipelineVars, reflexVars, selectVars, consciousVars,
      blackboardVars, brainVars, managerVars>>

\* ------------------------------------------------------------------------
\* Raw perception events (mineflayer-perception-collector.ts)
\* ------------------------------------------------------------------------

\* A raw event: (modality, kind), the entity fields when the event carries them,
\* and `passes`: whether the rule's predicate (when it has one) accepts the event.
RawEvent(modality, kind, entityId, entityType, displayName, pos, sneaking, passes) ==
    [modality |-> modality, kind |-> kind, entityId |-> entityId,
     entityType |-> entityType, displayName |-> displayName, pos |-> pos,
     sneaking |-> sneaking, passes |-> passes]

\* No event yet.
NoEvent == RawEvent(Undef, Undef, Undef, Undef, Undef, Undef, Undef, FALSE)

SneakToggleEvents ==
    { RawEvent("sighted", "sneak_toggle", id, "player", n, p, s, TRUE) :
        id \in EntityIds, n \in {"A"}, p \in {"p1"}, s \in {"true", "false"} }

EntityMovedEvents ==
    { RawEvent("sighted", "entity_moved", id, t, n, p, Undef, TRUE) :
        id \in EntityIds, t \in {"player", "mob"}, n \in {"B", Undef}, p \in {"p2", Undef} }

SoundEvents ==
    { RawEvent("heard", "sound", Undef, Undef, Undef, "p1", Undef, ok) : ok \in BOOLEAN }

ItemCollectedEvents ==
    { RawEvent("felt", "item_collected", Undef, Undef, Undef, Undef, Undef, TRUE) }

\* The threshold of the rule of a key (the spec's example uses 5; scaled down).
ThresholdOf(key) == IF key = "sneak" THEN 2 ELSE 3

\* The absent rule (SALIENCY_RULES[modality]?.[kind] is undefined).
NoRule == [key |-> Undef, threshold |-> 0, predicate |-> FALSE, signal |-> Undef]

\* The fixed rule set SALIENCY_RULES[modality][kind] of saliency-rules:
\* {key, threshold, predicate?, buildSignal}; NoRule when the pair has no rule.
SALIENCY_RULES(modality, kind) ==
    CASE modality = "sighted" /\ kind = "sneak_toggle" ->
            [key |-> "sneak", threshold |-> ThresholdOf("sneak"), predicate |-> FALSE, signal |-> "social_gesture"]
      [] modality = "heard" /\ kind = "sound" ->
            [key |-> "sound", threshold |-> ThresholdOf("sound"), predicate |-> TRUE, signal |-> "entity_attention"]
      [] OTHER -> NoRule

\* EVENT_KEYS: the keys of the rule set; one counter per key, created at startup.
EVENT_KEYS == {"sneak", "sound"}


\* ------------------------------------------------------------------------
\* Helpers on sequences
\* ------------------------------------------------------------------------

RECURSIVE SumSeq(_)
SumSeq(s) == IF s = <<>> THEN 0 ELSE Head(s) + SumSeq(Tail(s))

Zeros(n) == [i \in 1..n |-> 0]

Max(a, b) == IF a >= b THEN a ELSE b
Min(a, b) == IF a <= b THEN a ELSE b

\* The last n elements of s (all of s when it is shorter).
LastN(s, n) == IF Len(s) <= n THEN s ELSE SubSeq(s, Len(s) - n + 1, Len(s))

\* ------------------------------------------------------------------------
\* Perception machine: guards (machines/guards.ts)
\* ------------------------------------------------------------------------

hasEntityInfo(event) == event.entityId # Undef /\ event.entityType # Undef

\* Faulty variant: fires only above the threshold.
hasReachedThresholdAbove(ctrs, key, threshold) ==
    IF key \notin DOMAIN ctrs THEN FALSE ELSE ctrs[key].total > threshold

hasReachedThreshold(ctrs, key, threshold) ==
    IF key \notin DOMAIN ctrs THEN FALSE ELSE ctrs[key].total >= threshold

\* Faulty variant: the predicate of the rule is not consulted.
rulePredicateSkipped(event, rule) ==
    IF rule.key = Undef THEN FALSE ELSE TRUE

rulePredicatePasses(event, rule) ==
    IF rule.key = Undef THEN FALSE
    ELSE IF rule.predicate THEN event.passes
    ELSE TRUE

\* ------------------------------------------------------------------------
\* Perception machine: context transformers (machines/actions.ts)
\* ------------------------------------------------------------------------

createCounter ==
    [head |-> 0, counts |-> Zeros(WINDOW_SIZE), triggers |-> Zeros(WINDOW_SIZE),
     total |-> 0, lastEventSlot |-> 0, lastFireSlot |-> -1, lastFireTotal |-> 0]

\* Faulty variant: a merge that keeps the stored name and sneaking flag when
\* the event does not carry them.
updateEntityBeliefMerged(ents, event, t) ==
    IF ~hasEntityInfo(event) THEN ents
    ELSE LET old == ents[event.entityId] IN
         [ents EXCEPT ![event.entityId] =
            [id |-> event.entityId,
             type |-> IF event.entityType = "player" THEN "player" ELSE "mob",
             name |-> IF event.displayName = Undef THEN old.name ELSE event.displayName,
             position |-> event.pos,
             isSneaking |-> IF event.sneaking = Undef THEN old.isSneaking ELSE event.sneaking,
             lastUpdatedAt |-> t]]

\* The belief built from one raw event; every field comes from that event.
updateEntityBelief(ents, event, t) ==
    IF ~hasEntityInfo(event) THEN ents
    ELSE [ents EXCEPT ![event.entityId] =
            [id |-> event.entityId,
             type |-> IF event.entityType = "player" THEN "player" ELSE "mob",
             name |-> event.displayName,
             position |-> event.pos,
             isSneaking |-> event.sneaking,
             lastUpdatedAt |-> t]]

\* Faulty variant: the event is counted in the slot after the head.
incrementCounterNextSlot(ctrs, key, slot) ==
    IF key \notin DOMAIN ctrs THEN ctrs
    ELSE LET c == ctrs[key] IN
         [ctrs EXCEPT ![key] =
            [c EXCEPT !.counts[((c.head + 1) % WINDOW_SIZE) + 1] = @ + 1,
                      !.total = c.total + 1,
                      !.lastEventSlot = slot]]

incrementCounter(ctrs, key, slot) ==
    IF key \notin DOMAIN ctrs THEN ctrs
    ELSE LET c == ctrs[key] IN
         [ctrs EXCEPT ![key] =
            [c EXCEPT !.counts[c.head + 1] = @ + 1,
                      !.total = c.total + 1,
                      !.lastEventSlot = slot]]

markThresholdTriggered(ctrs, key, slot) ==
    IF key \notin DOMAIN ctrs THEN ctrs
    ELSE LET c == ctrs[key] IN
         [ctrs EXCEPT ![key] =
            [c EXCEPT !.triggers[c.head + 1] = 1,
                      !.lastFireSlot = slot,
                      !.lastFireTotal = c.total]]

\* Faulty variant: the reset clears the trigger markers with the counts.
resetCounterAndTriggers(ctrs, key) ==
    IF key \notin DOMAIN ctrs THEN ctrs
    ELSE [ctrs EXCEPT ![key] =
            [@ EXCEPT !.total = 0, !.counts = Zeros(WINDOW_SIZE),
                      !.triggers = Zeros(WINDOW_SIZE)]]

resetCounter(ctrs, key) ==
    IF key \notin DOMAIN ctrs THEN ctrs
    ELSE [ctrs EXCEPT ![key] =
            [@ EXCEPT !.total = 0, !.counts = Zeros(WINDOW_SIZE)]]

\* Faulty variant: the expired slot is cleared but not subtracted from total.
AdvanceCounterKeepTotal(c) ==
    LET newHead == (c.head + 1) % WINDOW_SIZE
    IN  [c EXCEPT !.head = newHead,
                  !.counts[newHead + 1] = 0,
                  !.triggers[newHead + 1] = 0]

\* One counter moved one slot forward.
AdvanceCounter(c) ==
    LET newHead == (c.head + 1) % WINDOW_SIZE
        expired == c.counts[newHead + 1]
    IN  [c EXCEPT !.head = newHead,
                  !.counts[newHead + 1] = 0,
                  !.triggers[newHead + 1] = 0,
                  !.total = Max(0, c.total - expired)]

advanceSlot(ctrs) == [k \in DOMAIN ctrs |-> AdvanceCounter(ctrs[k])]

\* ------------------------------------------------------------------------
\* Perception machine: the machine's actions (perception-machine.ts)
\* ------------------------------------------------------------------------

\* ingestToSaliency: count the event when it has a rule whose predicate accepts it.
IngestAccepts(event) ==
    LET rule == SALIENCY_RULES(event.modality, event.kind) IN
    rule.key # Undef /\ rulePredicatePasses(event, rule)

ingestToSaliency(ctrs, event, slot) ==
    IF IngestAccepts(event)
    THEN incrementCounter(ctrs, SALIENCY_RULES(event.modality, event.kind).key, slot)
    ELSE ctrs

\* checkThreshold: does the event's rule fire on these counters?
ThresholdFires(ctrs, event) ==
    LET rule == SALIENCY_RULES(event.modality, event.kind) IN
    rule.key # Undef /\ hasReachedThreshold(ctrs, rule.key, rule.threshold)

checkThreshold(ctrs, event, slot) ==
    IF ThresholdFires(ctrs, event)
    THEN LET key == SALIENCY_RULES(event.modality, event.kind).key IN
         resetCounter(markThresholdTriggered(ctrs, key, slot), key)
    ELSE ctrs

PerceptionInit ==
    /\ pmState = "idle"
    /\ entities = [id \in EntityIds |-> NoBelief]
    /\ counters = [k \in EVENT_KEYS |-> createCounter]
    /\ currentSlot = 0
    /\ now = 0
    /\ signals = [k \in EVENT_KEYS |-> 0]
    /\ slotLog = [k \in EVENT_KEYS |-> <<0>>]
    /\ accepted = [k \in EVENT_KEYS |-> 0]
    /\ lastRaw = [id \in EntityIds |-> NoEvent]
    /\ upserts = [id \in EntityIds |-> 0]
    /\ lastIgnored = "none"
    /\ slotTimers = 0
    /\ idleDrops = "none"

\* The slotTimer actor: invoking it sets one interval, its cleanup clears that
\* interval.
startSlotTimer(timers) == timers + 1

stopSlotTimerLeaks(timers) == timers

stopSlotTimer(timers) == timers - 1

\* START in idle: enter collecting, which starts the slot timer.
PmStart ==
    /\ pmState = "idle"
    /\ pmState' = "collecting"
    /\ slotTimers' = startSlotTimer(slotTimers)
    /\ UNCHANGED <<entities, counters, currentSlot, now, signals, slotLog, accepted, lastRaw, upserts, lastIgnored, idleDrops>>
    /\ UNCHANGED outsidePerception

\* STOP in collecting: back to idle, which stops the slot timer.
PmStop ==
    /\ pmState = "collecting"
    /\ pmState' = "idle"
    /\ slotTimers' = stopSlotTimer(slotTimers)
    /\ UNCHANGED <<entities, counters, currentSlot, now, signals, slotLog, accepted, lastRaw, upserts, lastIgnored, idleDrops>>
    /\ UNCHANGED outsidePerception

\* RAW_EVENT: handled in collecting only, by updateEntity, ingestToSaliency and
\* checkThreshold in that order; in idle the event is dropped.
PmRawEvent(event) ==
    /\ IngestAccepts(event) =>
          accepted[SALIENCY_RULES(event.modality, event.kind).key] < MaxAccepted
    /\ UNCHANGED outsidePerception
    /\ IF pmState # "collecting"
       THEN /\ idleDrops' = "RAW_EVENT"
            /\ UNCHANGED <<pmState, entities, counters, currentSlot, now, signals, slotLog,
                           accepted, lastRaw, upserts, lastIgnored, slotTimers>>
       ELSE LET rule     == SALIENCY_RULES(event.modality, event.kind)
                ingested == ingestToSaliency(counters, event, currentSlot)
                fires    == ThresholdFires(ingested, event)
                key      == rule.key
            IN  /\ entities' = updateEntityBelief(entities, event, now)
                /\ counters' = checkThreshold(ingested, event, currentSlot)
                /\ signals' = IF fires THEN [signals EXCEPT ![key] = @ + 1] ELSE signals
                /\ slotLog' = IF IngestAccepts(event)
                              THEN [slotLog EXCEPT ![key][Len(slotLog[key])] = @ + 1]
                              ELSE slotLog
                /\ accepted' = IF IngestAccepts(event)
                               THEN [accepted EXCEPT ![key] = @ + 1]
                               ELSE accepted
                /\ lastRaw' = IF hasEntityInfo(event)
                              THEN [lastRaw EXCEPT ![event.entityId] = event]
                              ELSE lastRaw
                /\ upserts' = IF hasEntityInfo(event)
                              THEN [upserts EXCEPT ![event.entityId] = Min(2, @ + 1)]
                              ELSE upserts
                /\ lastIgnored' = IF rule.key = Undef THEN "no_rule"
                                  ELSE IF ~rulePredicatePasses(event, rule) THEN "predicate"
                                  ELSE "none"
                /\ UNCHANGED <<pmState, currentSlot, now, slotTimers, idleDrops>>

\* TICK, sent by a running slot timer while collecting: advanceWindow. A TICK
\* sent to the actor in idle is dropped.
PmTick ==
    /\ IF pmState = "collecting"
       THEN /\ slotTimers > 0
            /\ currentSlot < MaxSlot
            /\ counters' = advanceSlot(counters)
            /\ currentSlot' = currentSlot + 1
            /\ slotLog' = [k \in EVENT_KEYS |-> LastN(Append(slotLog[k], 0), WINDOW_SIZE)]
            /\ lastIgnored' = "none"
            /\ idleDrops' = "none"
            /\ UNCHANGED <<pmState, entities, now, signals, accepted, lastRaw, upserts,
                           slotTimers>>
       ELSE /\ idleDrops' = "TICK"
            /\ UNCHANGED <<pmState, entities, counters, currentSlot, now, signals, slotLog,
                           accepted, lastRaw, upserts, lastIgnored, slotTimers>>
    /\ UNCHANGED outsidePerception

\* Time passes.
ClockAdvance ==
    /\ now < MaxNow
    /\ now' = now + 1
    /\ UNCHANGED <<pmState, entities, counters, currentSlot, signals, slotLog, accepted, lastRaw, upserts, lastIgnored, slotTimers, idleDrops>>
    /\ UNCHANGED outsidePerception


\* ------------------------------------------------------------------------
\* Perception pipeline (pipeline.ts)
\* ------------------------------------------------------------------------

\* At most this many frames are ingested.
MaxFrames == 4

\* currentFrame === null.
NoFrame == [kind |-> Undef, raw |-> NoEvent, signals |-> 0]

\* createPerceptionFrameFromRawEvent: a world_raw frame with no signal attached.
createPerceptionFrameFromRawEvent(event) ==
    [kind |-> "world_raw", raw |-> event, signals |-> 0]

\* The pipeline's stages, in the order of this.stages.
stages == <<"entity_update", "attention", "router">>

\* PerceptionAPI.updateEntity(id, fields): the belief of that id is replaced.
perceptionUpdateEntity(api, event) ==
    [api EXCEPT ![event.entityId] =
        [id |-> event.entityId, type |-> "player", name |-> event.displayName,
         position |-> event.pos, isSneaking |-> event.sneaking, lastUpdatedAt |-> 0]]

\* The state one ingest threads through the stages.
\* thrownAt names the stage whose handle threw; escaped: the exception left ingest.
IngestStart(frame) ==
    [frame |-> frame, api |-> apiEntities, currentFrame |-> currentFrame,
     busRaw |-> busRaw, busPerception |-> busPerception,
     run |-> <<>>, thrownAt |-> "none", escaped |-> FALSE]

\* stage entity_update: players' events update the PerceptionAPI; failing is that call throwing.
EntityUpdateStage(st, failing) ==
    LET raw == st.frame.raw IN
    IF st.frame.kind # "world_raw" THEN st
    ELSE IF hasEntityInfo(raw) /\ raw.entityType = "player"
         THEN IF failing THEN [st EXCEPT !.thrownAt = "entity_update"]
              ELSE [st EXCEPT !.api = perceptionUpdateEntity(st.api, raw)]
         ELSE st

\* stage attention: currentFrame is the frame while the raw event is emitted on
\* the bus, and null again afterwards (finally), whether or not the emit threw.
\* Nothing sends RAW_EVENT to the perception actor, so its onSignal callback
\* does not run while the frame is current: no signal is attached.
AttentionStage(st, failing) ==
    IF st.frame.kind # "world_raw" THEN st
    ELSE LET during == [st EXCEPT !.currentFrame = st.frame]
             after  == IF failing
                       THEN [during EXCEPT !.thrownAt = "attention"]
                       ELSE [during EXCEPT !.busRaw = @ + 1]
         IN  [after EXCEPT !.currentFrame = NoFrame]

\* stage router: every signal attached to the frame is emitted as `perception`.
RouterStage(st, failing) ==
    IF st.frame.signals = 0 THEN st
    ELSE IF failing THEN [st EXCEPT !.thrownAt = "router"]
    ELSE [st EXCEPT !.busPerception = @ + st.frame.signals]

StageHandle(name, st, failing) ==
    LET out == CASE name = "entity_update" -> EntityUpdateStage(st, failing)
                 [] name = "attention"     -> AttentionStage(st, failing)
                 [] name = "router"        -> RouterStage(st, failing)
    IN  [out EXCEPT !.run = Append(st.run, name)]

\* Faulty variant: the loop goes on with the next stage after a stage threw.
RECURSIVE RunStagesNoBreak(_, _, _)
RunStagesNoBreak(st, i, throwAt) ==
    IF i > Len(stages) THEN st
    ELSE RunStagesNoBreak(StageHandle(stages[i], st, throwAt = stages[i]), i + 1, throwAt)

\* The loop of ingest from stage i on: a stage that throws is logged and ends the loop.
RECURSIVE RunStages(_, _, _)
RunStages(st, i, throwAt) ==
    IF i > Len(stages) THEN st
    ELSE LET out == StageHandle(stages[i], st, throwAt = stages[i]) IN
         IF out.thrownAt # "none" THEN out
         ELSE RunStages(out, i + 1, throwAt)

PipelineInitState ==
    /\ initialized = FALSE
    /\ currentFrame = NoFrame
    /\ apiEntities = [id \in EntityIds |-> NoBelief]
    /\ busRaw = 0
    /\ busPerception = 0
    /\ frames = 0
    /\ lastIngest = [run |-> <<>>, thrownAt |-> "none", escaped |-> FALSE]
    /\ prevThrownAt = "none"
    /\ offered = [k \in EVENT_KEYS |-> [slot |-> 0, n |-> 0]]

\* init(bot): a new perception actor is created, started and sent START.
PipelineInit ==
    /\ initialized' = TRUE
    /\ pmState' = "collecting"
    /\ entities' = [id \in EntityIds |-> NoBelief]
    /\ counters' = [k \in EVENT_KEYS |-> createCounter]
    /\ currentSlot' = 0
    /\ signals' = [k \in EVENT_KEYS |-> 0]
    /\ slotLog' = [k \in EVENT_KEYS |-> <<0>>]
    /\ accepted' = [k \in EVENT_KEYS |-> 0]
    /\ lastRaw' = [id \in EntityIds |-> NoEvent]
    /\ upserts' = [id \in EntityIds |-> 0]
    /\ lastIgnored' = "none"
    /\ slotTimers' = startSlotTimer(0)
    /\ idleDrops' = "none"
    /\ offered' = [k \in EVENT_KEYS |-> [slot |-> 0, n |-> 0]]
    /\ UNCHANGED <<now, currentFrame, apiEntities, busRaw, busPerception,
                   frames, lastIngest, prevThrownAt>>
    /\ UNCHANGED outsidePipeline

\* destroy(): the actor is sent STOP and stopped; the pipeline drops later frames.
PipelineDestroy ==
    /\ initialized
    /\ initialized' = FALSE
    /\ pmState' = "idle"
    /\ slotTimers' = stopSlotTimer(slotTimers)
    /\ UNCHANGED <<entities, counters, currentSlot, now, signals, slotLog, accepted,
                   lastRaw, upserts, lastIgnored, idleDrops>>
    /\ UNCHANGED <<currentFrame, apiEntities, busRaw, busPerception,
                   frames, lastIngest, prevThrownAt, offered>>
    /\ UNCHANGED outsidePipeline

\* ingest(frame) of the frame of a raw event; throwAt names the stage whose
\* collaborator (PerceptionAPI, event bus) throws during this call, if any.
PipelineIngest(event, throwAt) ==
    /\ frames < MaxFrames
    /\ UNCHANGED outsidePipeline
    /\ IF ~initialized
       THEN UNCHANGED <<perceptionVars, pipelineVars>>
       ELSE LET out == RunStages(IngestStart(createPerceptionFrameFromRawEvent(event)), 1, throwAt)
                key == SALIENCY_RULES(event.modality, event.kind).key
            IN  /\ apiEntities' = out.api
                /\ currentFrame' = out.currentFrame
                /\ busRaw' = out.busRaw
                /\ busPerception' = out.busPerception
                /\ frames' = frames + 1
                /\ lastIngest' = [run |-> out.run, thrownAt |-> out.thrownAt,
                                  escaped |-> out.escaped]
                /\ prevThrownAt' = lastIngest.thrownAt
                /\ offered' = IF IngestAccepts(event)
                              THEN [offered EXCEPT ![key] =
                                      IF @.slot = currentSlot /\ @.n > 0
                                      THEN [@ EXCEPT !.n = @ + 1]
                                      ELSE [slot |-> currentSlot, n |-> 1]]
                              ELSE offered
                /\ UNCHANGED <<initialized, perceptionVars>>

\* ------------------------------------------------------------------------
\* Reflex mode machine (reflex/machines: guards.ts, actions.ts, reflex-machine.ts)
\* ------------------------------------------------------------------------

\* At most this many task actions are in flight.
MaxInFlight == 2

\* Automatic transitions followed after one event before the model gives up.
SettleFuel == 6

ReflexModes == {"idle", "social", "alert", "work", "wander"}

\* The instants Date.now() is read at: a first chat message at 1, then the two
\* sides of the 30 s and of the 60 s threshold after it.
ClockValues == {1, 30001, 30002, 60001, 60002}

\* A field a patch does not carry.
Absent == -1

\* Faulty variant: only low health raises the alert.
canEnterAlertHealthOnly(ctx) == ctx.health < 10

\* canEnterSocial with the recency test rejecting at 30 s already.
canEnterSocialBefore30s(ctx) ==
    IF ctx.lastMessageAt = 0 THEN FALSE
    ELSE IF ctx.now - ctx.lastMessageAt >= 30000 THEN FALSE
    ELSE ctx.nearbyPlayers > 0

canEnterSocial(ctx) ==
    IF ctx.lastMessageAt = 0 THEN FALSE
    ELSE IF ctx.now - ctx.lastMessageAt > 30000 THEN FALSE
    ELSE ctx.nearbyPlayers > 0

canEnterAlert(ctx) ==
    IF ctx.health < 10 THEN TRUE
    ELSE IF ctx.threatScore > 5 THEN TRUE
    ELSE FALSE

hasActiveActions(ctx) == ctx.inFlightActionsCount > 0

incrementActionsCount(ctx) ==
    [ctx EXCEPT !.inFlightActionsCount = @ + 1]

\* Faulty variant: the count is decremented without the floor at 0.
decrementActionsCountUnclamped(ctx) ==
    [ctx EXCEPT !.inFlightActionsCount = @ - 1]

decrementActionsCount(ctx) ==
    [ctx EXCEPT !.inFlightActionsCount = Max(0, @ - 1)]

\* updateContextState with a patch of now, self.health and threat.threatScore.
updateContextState(ctx, patch) ==
    [ctx EXCEPT !.now = IF patch.now = Absent THEN @ ELSE patch.now,
                !.health = IF patch.health = Absent THEN @ ELSE patch.health,
                !.threatScore = IF patch.threatScore = Absent THEN @ ELSE patch.threatScore]

updateEnvironment(ctx, nearbyPlayers) == [ctx EXCEPT !.nearbyPlayers = nearbyPlayers]

\* handleSignal: now is refreshed; a chat message also stamps lastMessageAt.
handleSignal(ctx, signalType, t) ==
    LET stamped == [ctx EXCEPT !.now = t] IN
    IF signalType = "chat_message" THEN [stamped EXCEPT !.lastMessageAt = t]
    ELSE stamped

\* Faulty variant: wander watches the alert guard as idle does.
AlwaysTargetWanderAlerts(mode, ctx) ==
    CASE mode = "idle" ->
            IF canEnterAlert(ctx) THEN "alert"
            ELSE IF canEnterSocial(ctx) THEN "social"
            ELSE "none"
      [] mode = "social" ->
            IF ctx.lastMessageAt = 0 \/ ctx.now - ctx.lastMessageAt > 60000
            THEN "idle" ELSE "none"
      [] mode = "alert" ->
            IF ctx.health >= 15 /\ ctx.threatScore <= 3 THEN "idle" ELSE "none"
      [] mode = "work" ->
            IF ~hasActiveActions(ctx) THEN "idle" ELSE "none"
      [] mode = "wander" ->
            IF canEnterAlert(ctx) THEN "alert" ELSE "none"
      [] OTHER -> "none"

\* Faulty variant: alert is left on health alone, whatever the threat score.
AlwaysTargetAlertIgnoresThreat(mode, ctx) ==
    CASE mode = "idle" ->
            IF canEnterAlert(ctx) THEN "alert"
            ELSE IF canEnterSocial(ctx) THEN "social"
            ELSE "none"
      [] mode = "social" ->
            IF ctx.lastMessageAt = 0 \/ ctx.now - ctx.lastMessageAt > 60000
            THEN "idle" ELSE "none"
      [] mode = "alert" ->
            IF ctx.health >= 15 THEN "idle" ELSE "none"
      [] mode = "work" ->
            IF ~hasActiveActions(ctx) THEN "idle" ELSE "none"
      [] OTHER -> "none"

\* Faulty variant: an idle machine with nothing else to do drifts into wander.
AlwaysTargetIdleWanders(mode, ctx) ==
    CASE mode = "idle" ->
            IF canEnterAlert(ctx) THEN "alert"
            ELSE IF canEnterSocial(ctx) THEN "social"
            ELSE "wander"
      [] mode = "social" ->
            IF ctx.lastMessageAt = 0 \/ ctx.now - ctx.lastMessageAt > 60000
            THEN "idle" ELSE "none"
      [] mode = "alert" ->
            IF ctx.health >= 15 /\ ctx.threatScore <= 3 THEN "idle" ELSE "none"
      [] mode = "work" ->
            IF ~hasActiveActions(ctx) THEN "idle" ELSE "none"
      [] OTHER -> "none"

\* The first eventless (always) transition enabled in a mode, "none" when none is.
AlwaysTarget(mode, ctx) ==
    CASE mode = "idle" ->
            IF canEnterAlert(ctx) THEN "alert"
            ELSE IF canEnterSocial(ctx) THEN "social"
            ELSE "none"
      [] mode = "social" ->
            IF ctx.lastMessageAt = 0 \/ ctx.now - ctx.lastMessageAt > 60000
            THEN "idle" ELSE "none"
      [] mode = "alert" ->
            IF ctx.health >= 15 /\ ctx.threatScore <= 3 THEN "idle" ELSE "none"
      [] mode = "work" ->
            IF ~hasActiveActions(ctx) THEN "idle" ELSE "none"
      [] OTHER -> "none"

\* The rest of a macrostep: eventless transitions are taken until none is enabled.
RECURSIVE ReflexSettle(_, _, _, _)
ReflexSettle(mode, ctx, entered, fuel) ==
    LET target == AlwaysTarget(mode, ctx) IN
    IF target = "none" \/ fuel = 0 THEN [mode |-> mode, entered |-> entered]
    ELSE ReflexSettle(target, ctx, Append(entered, target), fuel - 1)

\* One macrostep of the mode machine: the context the event leaves, the mode it
\* targets ("none" for a transition without target), then the eventless
\* transitions.
ReflexTake(ctx2, target) ==
    LET start == IF target = "none" THEN reflexMode ELSE target
        entered == IF target = "none" THEN <<>> ELSE <<target>>
        settled == ReflexSettle(start, ctx2, entered, SettleFuel)
    IN  /\ reflexCtx' = ctx2
        /\ reflexMode' = settled.mode
        /\ reflexEntered' = settled.entered

\* One event sent through reflexActor?.send and processed; nothing is sent once
\* the actor is gone.
ReflexStep(ctx2, target) ==
    /\ reflexActor = "running"
    /\ ReflexTake(ctx2, target)
    /\ UNCHANGED <<clock, reflexActor>>
    /\ UNCHANGED outsideReflex

\* The transition MODE_OVERRIDE selects in a mode: idle goes to work or wander
\* when asked to, wander goes to idle when asked for another mode, "none" where
\* the event is not handled.
ModeOverrideTarget(current, mode) ==
    IF current = "idle" /\ mode \in {"work", "wander"} THEN mode
    ELSE IF current = "wander" /\ mode # "wander" THEN "idle"
    ELSE "none"

ReflexInit ==
    /\ reflexMode = "idle"
    /\ clock = 1
    /\ reflexCtx = [now |-> 1, health |-> 20, threatScore |-> 0, lastMessageAt |-> 0,
                    nearbyPlayers |-> 0, inFlightActionsCount |-> 0]
    /\ reflexEntered = <<"idle">>
    /\ reflexActor = "running"
    /\ reflexEvent = "none"

\* SIGNAL (root): handleSignal.
ReflexSignal(signalType) ==
    /\ ReflexStep(handleSignal(reflexCtx, signalType, clock), "none")
    /\ reflexEvent' = "SIGNAL"

\* UPDATE_CONTEXT (root): updateContextFromEvent.
ReflexUpdateContext(patch) ==
    /\ ReflexStep(updateContextState(reflexCtx, patch), "none")
    /\ reflexEvent' = "UPDATE_CONTEXT"

\* UPDATE_ENVIRONMENT (root): updateContextFromEvent.
ReflexUpdateEnvironment(nearbyPlayers) ==
    /\ ReflexStep(updateEnvironment(reflexCtx, nearbyPlayers), "none")
    /\ reflexEvent' = "UPDATE_ENVIRONMENT"

\* TASK_STARTED (root): target work, incrementActions.
ReflexTaskStarted ==
    /\ reflexCtx.inFlightActionsCount < MaxInFlight
    /\ ReflexStep(incrementActionsCount(reflexCtx), "work")
    /\ reflexEvent' = "TASK_STARTED"

\* TASK_COMPLETED (root): decrementActions.
ReflexTaskCompleted ==
    /\ ReflexStep(decrementActionsCount(reflexCtx), "none")
    /\ reflexEvent' = "TASK_COMPLETED"

\* TASK_FAILED (root): decrementActions.
ReflexTaskFailed ==
    /\ ReflexStep(decrementActionsCount(reflexCtx), "none")
    /\ reflexEvent' = "TASK_FAILED"

\* MODE_OVERRIDE: idle goes to work or wander when asked to; wander goes to idle
\* when asked for another mode; every other mode ignores the event.
ReflexModeOverride(mode) ==
    /\ IF reflexMode = "idle" /\ mode \in {"work", "wander"} THEN ReflexStep(reflexCtx, mode)
       ELSE IF reflexMode = "wander" /\ mode # "wander" THEN ReflexStep(reflexCtx, "idle")
       ELSE ReflexStep(reflexCtx, "none")
    /\ reflexEvent' = "MODE_OVERRIDE"

\* TICK: social goes to idle when hasActiveActions holds; no other mode handles it.
ReflexTick ==
    /\ IF reflexMode = "social" /\ hasActiveActions(reflexCtx) THEN ReflexStep(reflexCtx, "idle")
       ELSE ReflexStep(reflexCtx, "none")
    /\ reflexEvent' = "TICK"

\* Date.now() moves on between two events.
ReflexClockAdvance ==
    /\ \E t \in ClockValues : t > clock /\ clock' = t
    /\ UNCHANGED <<reflexMode, reflexCtx, reflexEntered, reflexActor, reflexEvent>>
    /\ UNCHANGED outsideReflex

\* ReflexManager.destroy: with an actor, MODE_OVERRIDE idle is sent, then the
\* actor is stopped and dropped; without one, nothing happens.
ReflexDestroy ==
    /\ IF reflexActor = "running"
       THEN /\ ReflexTake(reflexCtx, ModeOverrideTarget(reflexMode, "idle"))
            /\ reflexEvent' = "MODE_OVERRIDE"
            /\ reflexActor' = "null"
       ELSE UNCHANGED <<reflexMode, reflexCtx, reflexEntered, reflexActor, reflexEvent>>
    /\ UNCHANGED clock
    /\ UNCHANGED outsideReflex

\* ------------------------------------------------------------------------
\* Reflex behaviour selection (reflex-manager.ts onTick, machines/actions.ts)
\* ------------------------------------------------------------------------

\* onTick selects among [greetingBehavior, lookAtBehavior, teabagBehavior].
NBehaviors == 3

\* Scores range over 0..MaxScore (greeting scores 0 for a speaker greeted recently).
MaxScore == 2

\* No behaviour selected (null).
NoPick == 0

\* A behaviour as one tick sees it: whether its modes include the current mode,
\* what its `when` and `score` return, its cooldown and its last run (0: never).
BehaviorViews ==
    [inMode : BOOLEAN, when : BOOLEAN, score : 0..MaxScore,
     cooldownMs : {0, 2}, lastRunAt : {0, 1}]

\* Faulty variant: the cooldown of a candidate is not looked at.
RECURSIVE OnTickLoopNoCooldown(_, _, _, _)
OnTickLoopNoCooldown(bs, i, best, t) ==
    IF i > Len(bs) THEN best
    ELSE LET b == bs[i] IN
         IF ~b.inMode THEN OnTickLoopNoCooldown(bs, i + 1, best, t)
         ELSE IF b.when /\ b.score > best.score
         THEN OnTickLoopNoCooldown(bs, i + 1, [index |-> i, score |-> b.score], t)
         ELSE OnTickLoopNoCooldown(bs, i + 1, best, t)

\* onTick, from candidate i on; best is the pair (bestBehavior, bestScore).
RECURSIVE OnTickLoop(_, _, _, _)
OnTickLoop(bs, i, best, t) ==
    IF i > Len(bs) THEN best
    ELSE LET b == bs[i] IN
         IF ~b.inMode THEN OnTickLoop(bs, i + 1, best, t)
         ELSE IF b.cooldownMs # 0 /\ b.lastRunAt # 0 /\ t - b.lastRunAt < b.cooldownMs
         THEN OnTickLoop(bs, i + 1, best, t)
         ELSE IF b.when /\ b.score > best.score
         THEN OnTickLoop(bs, i + 1, [index |-> i, score |-> b.score], t)
         ELSE OnTickLoop(bs, i + 1, best, t)

\* Faulty variant: a later behaviour with an equal score replaces the best.
RECURSIVE SelectBehaviorLoopLastWins(_, _, _, _)
SelectBehaviorLoopLastWins(bs, i, best, t) ==
    IF i > Len(bs) THEN best
    ELSE LET b == bs[i] IN
         IF ~b.inMode THEN SelectBehaviorLoopLastWins(bs, i + 1, best, t)
         ELSE IF ~b.when THEN SelectBehaviorLoopLastWins(bs, i + 1, best, t)
         ELSE IF b.score <= 0 THEN SelectBehaviorLoopLastWins(bs, i + 1, best, t)
         ELSE IF b.lastRunAt # 0 /\ b.cooldownMs > 0 /\ t - b.lastRunAt < b.cooldownMs
         THEN SelectBehaviorLoopLastWins(bs, i + 1, best, t)
         ELSE IF best.index = NoPick \/ b.score >= best.score
         THEN SelectBehaviorLoopLastWins(bs, i + 1, [index |-> i, score |-> b.score], t)
         ELSE SelectBehaviorLoopLastWins(bs, i + 1, best, t)

\* selectBehavior, from behaviour i on; best is null (index NoPick) or {behavior, score}.
RECURSIVE SelectBehaviorLoop(_, _, _, _)
SelectBehaviorLoop(bs, i, best, t) ==
    IF i > Len(bs) THEN best
    ELSE LET b == bs[i] IN
         IF ~b.inMode THEN SelectBehaviorLoop(bs, i + 1, best, t)
         ELSE IF ~b.when THEN SelectBehaviorLoop(bs, i + 1, best, t)
         ELSE IF b.score <= 0 THEN SelectBehaviorLoop(bs, i + 1, best, t)
         ELSE IF b.lastRunAt # 0 /\ b.cooldownMs > 0 /\ t - b.lastRunAt < b.cooldownMs
         THEN SelectBehaviorLoop(bs, i + 1, best, t)
         ELSE IF best.index = NoPick \/ b.score > best.score
         THEN SelectBehaviorLoop(bs, i + 1, [index |-> i, score |-> b.score], t)
         ELSE SelectBehaviorLoop(bs, i + 1, best, t)

selectBehavior(bs, t) == SelectBehaviorLoop(bs, 1, [index |-> NoPick, score |-> 0], t).index

onTickSelect(bs, t) == OnTickLoop(bs, 1, [index |-> NoPick, score |-> -1], t).index

SelectInit ==
    /\ selBehaviors \in [1..NBehaviors -> BehaviorViews]
    /\ selNow \in {2, 3}
    /\ selPicked = [by |-> "none", index |-> NoPick]

\* The selection step of ReflexManager.onTick.
SelectOnTick ==
    /\ selPicked.by = "none"
    /\ selPicked' = [by |-> "onTick", index |-> onTickSelect(selBehaviors, selNow)]
    /\ UNCHANGED <<selBehaviors, selNow>>
    /\ UNCHANGED outsideSelect

\* A call of selectBehavior(context, mode).
SelectBehaviorCall ==
    /\ selPicked.by = "none"
    /\ selPicked' = [by |-> "selectBehavior", index |-> selectBehavior(selBehaviors, selNow)]
    /\ UNCHANGED <<selBehaviors, selNow>>
    /\ UNCHANGED outsideSelect

\* ------------------------------------------------------------------------
\* ReflexManager: signals, the tick loop and the behaviours it runs
\* (reflex-manager.ts, behaviors/look-at.ts)
\* ------------------------------------------------------------------------

\* The instants Date.now() is read at while behaviours run: a first run at 1,
\* then one instant short of the 5000 ms cooldown and one past the 10000 ms one.
TickInstants == {1, 5000, 10001}

Speakers == {"A", "B"}

\* At most this many intent executions are awaited at once.
MaxExecuting == 2

\* The behaviours onTick lists, in its order: id, modes, cooldownMs.
greetingBehavior == [id |-> "greeting", modes |-> {"social"}, cooldownMs |-> 10000]
lookAtBehavior == [id |-> "look-at", modes |-> {"idle", "social"}, cooldownMs |-> 100]
teabagBehavior == [id |-> "teabag", modes |-> {"social", "idle"}, cooldownMs |-> 5000]

behaviors == <<greetingBehavior, lookAtBehavior, teabagBehavior>>

BehaviorIds == {"greeting", "look-at", "teabag"}

\* b.when(snapshot, perception); teabaggers: whether perception reports an
\* entity with a teabag belief above 0.6.
BehaviorWhen(id, snap, teabaggers) ==
    CASE id = "greeting" -> snap.lastMessage = "hi"
      [] id = "look-at" ->
            IF snap.lastSignalType = "none" \/ snap.lastSignalAt = 0 THEN FALSE
            ELSE IF snap.now - snap.lastSignalAt > 2000 THEN FALSE
            ELSE snap.lastSignalType = "entity_attention"
      [] OTHER -> teabaggers

\* b.score(snapshot, perception); the teabag score is taken at confidence 0.6.
BehaviorScore(id, snap, teabaggers) ==
    CASE id = "greeting" ->
            IF snap.lastSpeaker = "none" THEN 0
            ELSE IF snap.lastGreetingAtBySpeaker[snap.lastSpeaker] # 0
                    /\ snap.now - snap.lastGreetingAtBySpeaker[snap.lastSpeaker] < 10000
            THEN 0
            ELSE 10
      [] id = "look-at" -> 50
      [] OTHER -> IF teabaggers THEN 72 ELSE 0

\* stateUpdates of b.run(snapshot, perception), applied to the manager's context:
\* greeting stamps the speaker it greets.
BehaviorStateUpdates(id, snap, ctx) ==
    IF id = "greeting" /\ snap.lastSpeaker # "none"
    THEN [ctx EXCEPT !.lastGreetingAtBySpeaker[snap.lastSpeaker] = snap.now]
    ELSE ctx

\* Whether b.run returns a decision with an intent for the executor; look-at
\* has one when perception knows the entity of the signal (found).
BehaviorHasIntent(id, snap, found) ==
    CASE id = "greeting" -> snap.lastSpeaker # "none"
      [] id = "look-at" -> found
      [] OTHER -> TRUE

\* The behaviours as the selection loop of a tick sees them.
ManagerViews(mode, snap, teabaggers) ==
    [i \in 1..Len(behaviors) |->
        [inMode |-> mode \in behaviors[i].modes,
         when |-> BehaviorWhen(behaviors[i].id, snap, teabaggers),
         score |-> BehaviorScore(behaviors[i].id, snap, teabaggers),
         cooldownMs |-> behaviors[i].cooldownMs,
         lastRunAt |-> lastRunAt[behaviors[i].id]]]

NoTick == [by |-> "none", picked |-> "none"]

ManagerInit ==
    /\ mgrCtx = [lastMessage |-> "none", lastSpeaker |-> "none",
                 lastGreetingAtBySpeaker |-> [sp \in Speakers |-> 0],
                 lastSignalType |-> "none", lastSignalAt |-> 0]
    /\ lastRunAt = [id \in BehaviorIds |-> 0]
    /\ executing = 0
    /\ ranAt = [id \in BehaviorIds |-> 0]
    /\ lastTick = NoTick

\* getMode(): the value of the machine's snapshot, idle without an actor.
getMode == IF reflexActor = "null" THEN "idle" ELSE reflexMode

\* The machine after SIGNAL and then TICK, the two events onSignal sends.
AfterSignalAndTick(signalType) ==
    LET ctx2 == handleSignal(reflexCtx, signalType, clock)
        afterSignal == ReflexSettle(reflexMode, ctx2, <<>>, SettleFuel)
        tickTarget == IF afterSignal.mode = "social" /\ hasActiveActions(ctx2)
                      THEN "idle" ELSE "none"
        afterTick == IF tickTarget = "none" THEN [mode |-> afterSignal.mode, entered |-> <<>>]
                     ELSE ReflexSettle("idle", ctx2, <<"idle">>, SettleFuel)
    IN  [ctx |-> ctx2, mode |-> afterTick.mode, entered |-> afterTick.entered]

\* onSignal: the manager's context is updated, then SIGNAL and TICK are sent.
ManagerOnSignal(signalType, speaker, message) ==
    /\ reflexActor = "running"
    /\ mgrCtx' = IF signalType = "chat_message"
                 THEN [mgrCtx EXCEPT !.lastSignalType = signalType, !.lastSignalAt = clock,
                                     !.lastSpeaker = speaker, !.lastMessage = message]
                 ELSE [mgrCtx EXCEPT !.lastSignalType = signalType, !.lastSignalAt = clock]
    /\ LET after == AfterSignalAndTick(signalType) IN
       /\ reflexCtx' = after.ctx
       /\ reflexMode' = after.mode
       /\ reflexEntered' = after.entered
    /\ reflexEvent' = "TICK"
    /\ UNCHANGED <<clock, reflexActor>>
    /\ UNCHANGED <<lastRunAt, executing, ranAt, lastTick>>
    /\ UNCHANGED outsideManager

\* onTick on a physicTick that brings tickCount to a multiple of five (the
\* other four only count, and nothing else reads tickCount): it selects among
\* the behaviours of the current mode that are off cooldown and starts the
\* best one. Its run is awaited,
\* which for these behaviours ends before any later tick: lastRunAt is set and
\* the state updates are applied; the intent is then handed to the executor,
\* whose completion is awaited without holding back later ticks.
ManagerOnTick(teabaggers, found) ==
    /\ UNCHANGED outsideManager
    /\ UNCHANGED reflexVars
    /\ IF reflexActor = "null"
       THEN UNCHANGED <<mgrCtx, lastRunAt, executing, ranAt, lastTick>>
       ELSE LET mode == getMode
                snap == [lastMessage |-> mgrCtx.lastMessage,
                         lastSpeaker |-> mgrCtx.lastSpeaker,
                         lastGreetingAtBySpeaker |-> mgrCtx.lastGreetingAtBySpeaker,
                         lastSignalType |-> mgrCtx.lastSignalType,
                         lastSignalAt |-> mgrCtx.lastSignalAt,
                         now |-> clock]
                best == onTickSelect(ManagerViews(mode, snap, teabaggers), clock)
            IN  IF best = NoPick
                THEN /\ lastTick' = [by |-> "onTick", picked |-> "none"]
                     /\ UNCHANGED <<mgrCtx, lastRunAt, executing, ranAt>>
                ELSE LET id == behaviors[best].id IN
                     /\ executing < MaxExecuting
                     /\ lastTick' = [by |-> "onTick", picked |-> id]
                     /\ ranAt' = [ranAt EXCEPT ![id] = clock]
                     /\ lastRunAt' = [lastRunAt EXCEPT ![id] = clock]
                     /\ mgrCtx' = BehaviorStateUpdates(id, snap, mgrCtx)
                     /\ executing' = IF BehaviorHasIntent(id, snap, found)
                                     THEN executing + 1
                                     ELSE executing

\* executor.execute(intent) of a started behaviour settles.
ManagerExecuteSettles ==
    /\ executing > 0
    /\ executing' = executing - 1
    /\ UNCHANGED <<mgrCtx, lastRunAt, ranAt, lastTick>>
    /\ UNCHANGED reflexVars
    /\ UNCHANGED outsideManager

\* Date.now() moves on between two handlers.
ManagerClockAdvance ==
    /\ \E t \in TickInstants : t > clock /\ clock' = t
    /\ UNCHANGED <<reflexMode, reflexCtx, reflexEntered, reflexActor, reflexEvent>>
    /\ UNCHANGED managerVars
    /\ UNCHANGED outsideManager

\* ------------------------------------------------------------------------
\* Conscious machine (conscious-machine.ts, machines/actions.ts, guards.ts)
\* and the Brain's decision loop (context-view.ts: decide, error classifiers)
\* ------------------------------------------------------------------------

\* At most this many events are sent to the machine.
MaxEvents == 3

\* Action ids action-1 .. action-MaxActionId are handed out.
MaxActionId == 2

\* The blackboard's current task: none, or the one a response may name.
NoTask == 0
ResponseTasks == {NoTask, 1}

\* createConsciousMachine: input.maxRetries ?? 3.
maxRetries == 3

\* Brain.decide: const maxAttempts = 3.
maxAttempts == 3

\* An error thrown by a decision attempt: its HTTP status (0: none), its code,
\* and whether its message contains an auth/bad-argument or a transient phrase.
DecisionErrors ==
    [status : {0, 401, 403, 429, 500}, code : {"none", "ETIMEDOUT"},
     msgAuth : BOOLEAN, msgTransient : BOOLEAN]

NoError == [status |-> 0, code |-> "none", msgAuth |-> FALSE, msgTransient |-> FALSE]

isLikelyAuthOrBadArgError(err) ==
    IF err.status = 401 \/ err.status = 403 THEN TRUE ELSE err.msgAuth

isLikelyRecoverableError(err) ==
    IF err.status = 429 THEN TRUE
    ELSE IF err.status >= 500 THEN TRUE
    ELSE IF err.code \in {"ETIMEDOUT", "ECONNRESET", "ENOTFOUND", "EAI_AGAIN", "ECONNREFUSED"}
    THEN TRUE
    ELSE err.msgTransient

\* Faulty variant: no failed attempt is retried.
decideShouldRetryNever(attempt, err) == FALSE

\* Faulty variant: every recoverable-looking error is retried.
decideShouldRetryRecoverable(attempt, err) ==
    maxAttempts - attempt > 0 /\ isLikelyRecoverableError(err)

\* decide's catch block: shouldRetry for the error of attempt number `attempt`.
decideShouldRetry(attempt, err) ==
    /\ maxAttempts - attempt > 0
    /\ ~isLikelyAuthOrBadArgError(err)
    /\ isLikelyRecoverableError(err)

\* How decide's classifiers read an error: "fatal" (auth or bad argument, never
\* retried), "transient" (recoverable and not fatal) or "other".
ErrorKind(err) ==
    IF isLikelyAuthOrBadArgError(err) THEN "fatal"
    ELSE IF isLikelyRecoverableError(err) THEN "transient"
    ELSE "other"

hasQueuedEvents(ctx) == Len(ctx.eventQueue) > 0

shouldRetry(ctx, max) == ctx.retryCount < max

\* Faulty variant: actions in flight are not waited for.
allActionsDonePendingOnly(ctx) == ctx.pendingActions = {}

allActionsDone(ctx) == ctx.pendingActions = {} /\ ctx.inFlightActions = {}

enqueueEvent(ctx, event) == [ctx EXCEPT !.eventQueue = Append(@, event)]

\* Faulty variant: the newest event is made current.
dequeueEventNewest(ctx) ==
    IF ctx.eventQueue = <<>> THEN [ctx EXCEPT !.currentEvent = 0]
    ELSE [ctx EXCEPT !.eventQueue = SubSeq(@, 1, Len(@) - 1),
                     !.currentEvent = ctx.eventQueue[Len(ctx.eventQueue)]]

dequeueEvent(ctx) ==
    IF ctx.eventQueue = <<>> THEN [ctx EXCEPT !.currentEvent = 0]
    ELSE [ctx EXCEPT !.eventQueue = Tail(@), !.currentEvent = Head(ctx.eventQueue)]

clearCurrentEvent(ctx) == [ctx EXCEPT !.currentEvent = 0]

\* Faulty variant: a failed decision also drops the actions and their counter.
incrementRetryClearsActions(ctx) ==
    [ctx EXCEPT !.retryCount = @ + 1, !.pendingActions = {}, !.inFlightActions = {},
                !.nextActionId = 1]

incrementRetry(ctx) == [ctx EXCEPT !.retryCount = @ + 1]

resetRetry(ctx) == [ctx EXCEPT !.retryCount = 0]

\* addPendingActions for n actions that carry no id: action-<nextActionId++> each.
\* updateBlackboard(context, response) of the machine: the response names a
\* current task or none; a task it names replaces the blackboard's.
updateBlackboardOfContext(ctx, task) ==
    IF task # NoTask THEN [ctx EXCEPT !.blackboard.currentTask = task] ELSE ctx

addPendingActions(ctx, n) ==
    [ctx EXCEPT !.pendingActions = @ \cup (ctx.nextActionId .. ctx.nextActionId + n - 1),
                !.nextActionId = @ + n]

markActionStarted(ctx, actionId) == [ctx EXCEPT !.inFlightActions = @ \cup {actionId}]

markActionCompleted(ctx, actionId) ==
    [ctx EXCEPT !.pendingActions = @ \ {actionId}, !.inFlightActions = @ \ {actionId}]

\* Entering thinking: dequeueEvent, then buildContext is invoked.
EnterThinking(ctx) ==
    [state |-> "thinking", ctx |-> dequeueEvent(ctx), invoke |-> "buildContext",
     dequeued |-> <<dequeueEvent(ctx).currentEvent>>]

\* The eventless transitions after a transition left the machine in `state`
\* with context ctx and the invoked promise `invoke`.
CSettle(state, ctx, invoke) ==
    CASE state = "idle" ->
            IF hasQueuedEvents(ctx) THEN EnterThinking(ctx)
            ELSE [state |-> "idle", ctx |-> ctx, invoke |-> "none", dequeued |-> <<>>]
      [] state = "executing" ->
            IF hasQueuedEvents(ctx) /\ allActionsDone(ctx) THEN EnterThinking(ctx)
            ELSE IF allActionsDone(ctx)
            THEN [state |-> "idle", ctx |-> ctx, invoke |-> "none", dequeued |-> <<>>]
            ELSE [state |-> state, ctx |-> ctx, invoke |-> invoke, dequeued |-> <<>>]
      [] OTHER -> [state |-> state, ctx |-> ctx, invoke |-> invoke, dequeued |-> <<>>]

\* evaluating: resetRetry and clearCurrentEvent on entry, then executing when
\* actions are pending (executePendingActions is invoked), else idle.
Evaluating(ctx) ==
    LET entered == clearCurrentEvent(resetRetry(ctx)) IN
    IF entered.pendingActions # {}
    THEN CSettle("executing", entered, "executePendingActions")
    ELSE CSettle("idle", entered, "none")

\* deciding.invoke.onError: a retry stays in deciding without re-entering it (no
\* new callLLM is invoked); otherwise idle with resetRetry and clearCurrentEvent.
DecidingOnError(ctx) ==
    IF shouldRetry(ctx, maxRetries)
    THEN [state |-> "deciding", ctx |-> incrementRetry(ctx), invoke |-> "none",
          dequeued |-> <<>>]
    ELSE CSettle("idle", clearCurrentEvent(resetRetry(ctx)), "none")

\* The machine takes the outcome `next` of a transition.
CTake(next) ==
    /\ cState' = next.state
    /\ cCtx' = next.ctx
    /\ cInvoke' = next.invoke
    /\ dequeuedLog' = dequeuedLog \o next.dequeued
    /\ UNCHANGED cStatus
    /\ UNCHANGED outsideConscious

ConsciousInit ==
    /\ cState = "idle"
    /\ cStatus = "active"
    /\ cCtx = [eventQueue |-> <<>>, currentEvent |-> 0, retryCount |-> 0,
               pendingActions |-> {}, inFlightActions |-> {}, nextActionId |-> 1,
               blackboard |-> [currentTask |-> NoTask]]
    /\ cInvoke = "none"
    /\ decideAttempt = 0
    /\ enqueuedLog = <<>>
    /\ dequeuedLog = <<>>
    /\ llmCalls = 0
    /\ fatalAt = 0
    /\ lastError = NoError
    /\ decideOutcomes = <<>>
    /\ decideReturned = Absent
    /\ requiredFeedback = {}
    /\ cReports = {}

\* The reports taken in executing are forgotten when executing is left.
ReportsAfter(next, reports) ==
    IF next.state = "executing" THEN cReports \cup reports ELSE {}

\* The history of the current event starts afresh when an event is dequeued.
CHistoryAfter(next) ==
    /\ llmCalls' = IF next.dequeued # <<>> THEN 0 ELSE llmCalls
    /\ fatalAt' = IF next.dequeued # <<>> THEN 0 ELSE fatalAt

\* ENQUEUE_EVENT (root): enqueueEvent in every state; a stopped actor drops it.
CEnqueue ==
    /\ Len(enqueuedLog) < MaxEvents
    /\ IF cStatus # "active" THEN UNCHANGED vars
       ELSE LET event == Len(enqueuedLog) + 1
                next == CSettle(cState, enqueueEvent(cCtx, event), cInvoke)
            IN  /\ CTake(next)
                /\ CHistoryAfter(next)
                /\ enqueuedLog' = Append(enqueuedLog, event)
                /\ UNCHANGED <<decideAttempt, lastError, decideOutcomes, decideReturned,
                             requiredFeedback, cReports>>

\* thinking.invoke.onDone: deciding is entered and callLLM invoked; Brain's callLLM
\* runs decide, whose first attempt calls the reasoning service.
CBuildContextDone ==
    /\ cStatus = "active" /\ cInvoke = "buildContext"
    /\ CTake([state |-> "deciding", ctx |-> cCtx, invoke |-> "callLLM", dequeued |-> <<>>])
    /\ decideAttempt' = 1
    /\ llmCalls' = 1
    /\ decideOutcomes' = <<>>
    /\ decideReturned' = Absent
    /\ UNCHANGED <<enqueuedLog, fatalAt, lastError, requiredFeedback, cReports>>

\* thinking.invoke.onError: idle, clearCurrentEvent.
CBuildContextError ==
    /\ cStatus = "active" /\ cInvoke = "buildContext"
    /\ LET next == CSettle("idle", clearCurrentEvent(cCtx), "none")
       IN  CTake(next) /\ CHistoryAfter(next)
    /\ UNCHANGED <<decideAttempt, enqueuedLog, lastError, decideOutcomes, decideReturned,
                   requiredFeedback, cReports>>

\* An attempt of decide throws err: the loop goes on with the next attempt, or
\* decide throws err and the machine takes deciding.invoke.onError.
CDecideAttemptFails(err) ==
    /\ cStatus = "active" /\ cInvoke = "callLLM"
    /\ lastError' = err
    /\ fatalAt' = IF isLikelyAuthOrBadArgError(err) THEN llmCalls ELSE fatalAt
    /\ IF decideShouldRetry(decideAttempt, err)
       THEN /\ decideAttempt' = decideAttempt + 1
            /\ llmCalls' = llmCalls + 1
            /\ UNCHANGED <<cState, cStatus, cCtx, cInvoke, dequeuedLog>>
            /\ UNCHANGED outsideConscious
       ELSE /\ decideAttempt' = 0
            /\ CTake(DecidingOnError(cCtx))
            /\ UNCHANGED llmCalls
    /\ decideOutcomes' = Append(decideOutcomes, ErrorKind(err))
    /\ UNCHANGED <<enqueuedLog, decideReturned, requiredFeedback, cReports>>

\* The reasoning service returns nothing: decide returns null, Brain's callLLM
\* throws 'No decision made' and the machine takes deciding.invoke.onError.
CDecideNothing ==
    /\ cStatus = "active" /\ cInvoke = "callLLM"
    /\ decideAttempt' = 0
    /\ CTake(DecidingOnError(cCtx))
    /\ decideOutcomes' = Append(decideOutcomes, "null")
    /\ UNCHANGED <<enqueuedLog, llmCalls, fatalAt, lastError, decideReturned,
                   requiredFeedback, cReports>>

\* An attempt returns a response with n actions: deciding.invoke.onDone, evaluating.
CDecideSucceeds(n) ==
    /\ cStatus = "active" /\ cInvoke = "callLLM"
    /\ cCtx.nextActionId + n - 1 <= MaxActionId
    /\ decideAttempt' = 0
    /\ \E task \in ResponseTasks :
           LET next == Evaluating(addPendingActions(updateBlackboardOfContext(cCtx, task), n))
           IN  CTake(next) /\ CHistoryAfter(next)
    /\ decideOutcomes' = Append(decideOutcomes, "ok")
    /\ decideReturned' = n
    /\ requiredFeedback' \in SUBSET (cCtx.nextActionId .. cCtx.nextActionId + n - 1)
    /\ UNCHANGED <<enqueuedLog, lastError, cReports>>

\* executePendingActions resolves: executing has no onDone, nothing changes.
CExecuteResolves ==
    /\ cStatus = "active" /\ cInvoke = "executePendingActions"
    /\ cInvoke' = "none"
    /\ UNCHANGED <<cState, cStatus, cCtx, decideAttempt, enqueuedLog, dequeuedLog,
                   llmCalls, fatalAt, lastError, decideOutcomes, decideReturned,
                   requiredFeedback, cReports>>
    /\ UNCHANGED outsideConscious

\* executePendingActions rejects: executing has no onError, so the error of the
\* invoked actor is unhandled and the machine's actor stops with status error.
CExecuteRejects ==
    /\ cStatus = "active" /\ cInvoke = "executePendingActions"
    /\ cStatus' = "error"
    /\ cInvoke' = "none"
    /\ UNCHANGED <<cState, cCtx, decideAttempt, enqueuedLog, dequeuedLog,
                   llmCalls, fatalAt, lastError, decideOutcomes, decideReturned,
                   requiredFeedback, cReports>>
    /\ UNCHANGED outsideConscious

\* An action event in executing: the context the event's action leaves, then
\* the eventless transitions. Other states do not handle these events.
CActionEvent(ctx2, reports) ==
    IF cStatus # "active" \/ cState # "executing" THEN UNCHANGED vars
    ELSE LET next == CSettle("executing", ctx2, cInvoke)
         IN  /\ CTake(next)
             /\ CHistoryAfter(next)
             /\ cReports' = ReportsAfter(next, reports)
             /\ UNCHANGED <<decideAttempt, enqueuedLog, lastError,
                            decideOutcomes, decideReturned, requiredFeedback>>

\* ACTION_STARTED: markActionStarted.
CActionStarted(actionId) == CActionEvent(markActionStarted(cCtx, actionId), {})

\* ACTION_COMPLETED: markActionCompleted.
CActionCompleted(actionId) ==
    CActionEvent(markActionCompleted(cCtx, actionId), {actionId})

\* ACTION_FAILED: the machine's markActionCompleted action returns the context
\* as it is for every event other than ACTION_COMPLETED.
CActionFailed(actionId) == CActionEvent(cCtx, {actionId})

\* ------------------------------------------------------------------------
\* Blackboard (blackboard.ts: class Blackboard over the pure operations)
\* ------------------------------------------------------------------------

MAX_CHAT_HISTORY == 8
MAX_ACTION_HISTORY == 12
MAX_PENDING_ACTIONS == 12

\* At most this many calls of addChatMessage / addActionHistoryLine are made.
MaxChatAdds == 10
MaxLineAdds == 14

\* Date.now() as stamped on history lines: the wall clock is not tracked there.
DateNow == 0

\* The fields of BlackboardState the model keeps: one of the scalar fields and
\* the three lists.
createBlackboard ==
    [currentTask |-> "waiting", chatHistory |-> <<>>,
     recentActionHistory |-> <<>>, pendingActions |-> <<>>]

\* { ...state, ...patch }
updateBlackboard(state, patch) ==
    [f \in DOMAIN state |-> IF f \in DOMAIN patch THEN patch[f] ELSE state[f]]

addChatMessage(state, message) ==
    LET newHistory == Append(state.chatHistory, message) IN
    [state EXCEPT !.chatHistory =
        IF Len(newHistory) > MAX_CHAT_HISTORY THEN Tail(newHistory) ELSE newHistory]

addActionHistoryLine(state, line, timestamp) ==
    LET next == Append(state.recentActionHistory, [line |-> line, timestamp |-> timestamp]) IN
    [state EXCEPT !.recentActionHistory =
        IF Len(next) > MAX_ACTION_HISTORY THEN LastN(next, MAX_ACTION_HISTORY) ELSE next]

setPendingActions(state, lines) ==
    [state EXCEPT !.pendingActions =
        IF Len(lines) > MAX_PENDING_ACTIONS THEN SubSeq(lines, 1, MAX_PENDING_ACTIONS)
        ELSE lines]

\* new Blackboard()
BlackboardInit ==
    /\ blackboard = createBlackboard
    /\ chatAdded = <<>>
    /\ linesAdded = <<>>

\* Blackboard.addChatMessage(message): the n-th message added is message n.
BlackboardAddChatMessage ==
    /\ Len(chatAdded) < MaxChatAdds
    /\ LET message == Len(chatAdded) + 1 IN
         /\ blackboard' = addChatMessage(blackboard, message)
         /\ chatAdded' = Append(chatAdded, message)
    /\ UNCHANGED linesAdded
    /\ UNCHANGED outsideBlackboard

\* Blackboard.addActionHistoryLine(line): the n-th line added is line n.
BlackboardAddActionHistoryLine ==
    /\ Len(linesAdded) < MaxLineAdds
    /\ LET line == Len(linesAdded) + 1 IN
         /\ blackboard' = addActionHistoryLine(blackboard, line, DateNow)
         /\ linesAdded' = Append(linesAdded, line)
    /\ UNCHANGED chatAdded
    /\ UNCHANGED outsideBlackboard

\* Blackboard.setPendingActions(lines), lines being <<1, ..., n>>.
BlackboardSetPendingActions(n) ==
    /\ blackboard' = setPendingActions(blackboard, [i \in 1..n |-> i])
    /\ UNCHANGED <<chatAdded, linesAdded>>
    /\ UNCHANGED outsideBlackboard

\* Blackboard.update(updates): updates is a Partial<BlackboardState>, so it may
\* carry any of the fields, the lists included.
BlackboardUpdate(updates) ==
    /\ blackboard' = updateBlackboard(blackboard, updates)
    /\ UNCHANGED <<chatAdded, linesAdded>>
    /\ UNCHANGED outsideBlackboard

\* ------------------------------------------------------------------------
\* Brain (context-view.ts): the conscious actor's owner, its handlers of the
\* perception signals and of the task executor's reports, and its timers
\* ------------------------------------------------------------------------

\* BRAIN_FEEDBACK_DEBOUNCE_MS (default 200) and BRAIN_FEEDBACK_BARRIER_TIMEOUT_MS
\* (default 1000), in ticks of the timers' clock.
feedbackDebounceMs == 2
feedbackBarrierTimeoutMs == 3

\* enqueueEvent is called at most MaxBrainEvents times, and the executor
\* reports at most MaxReports outcomes, of actions 1 .. MaxExecutorId.
MaxBrainEvents == 3
MaxReports == 3
MaxExecutorId == 1

\* Brain.processEvent is run for at most MaxTurns turns, whose actions that
\* require feedback carry ids of 1 .. MaxTurnId.
MaxTurns == 2
MaxTurnId == 2
TurnIds == 1..MaxTurnId

\* An unarmed timer (the field is undefined).
NoTimer == [armed |-> FALSE, remaining |-> 0, event |-> 0]

\* setTimeout(callback, ms); `event` is the event the callback closes over.
setTimeout(ms, event) == [armed |-> TRUE, remaining |-> ms, event |-> event]

\* The timeout of the runtime that a timer field refers to.
Handle(timer) == [remaining |-> timer.remaining, event |-> timer.event]

\* Faulty variant: the timeout is left with the runtime.
clearTimeoutForgets(timeouts, timer) == timeouts

\* if (timer) clearTimeout(timer): the runtime drops the timeout.
clearTimeout(timeouts, timer) ==
    IF timer.armed THEN timeouts \ {Handle(timer)} ELSE timeouts

\* Ids of the actions the executor reports (every action carries an id).
ExecutorIds == 1..MaxExecutorId

\* Map.set / Map.delete on this.inFlightActions (insertion order is kept).
MapSet(ids, id) == IF \E i \in 1..Len(ids) : ids[i] = id THEN ids ELSE Append(ids, id)

MapDelete(ids, id) == SelectSeq(ids, LAMBDA x : x # id)

\* updatePendingActionsOnBlackboard: a line per in-flight action, headed by the
\* barrier line while ids are awaited.
updatePendingActionsOnBlackboard(bb, inFlight, waiting) ==
    LET pending == [i \in 1..Len(inFlight) |-> [kind |-> "action", n |-> inFlight[i]]]
        lines == IF Cardinality(waiting) > 0
                 THEN <<[kind |-> "barrier", n |-> Cardinality(waiting)]>> \o pending
                 ELSE pending
    IN  setPendingActions(bb, lines)

formatActionHistoryLine(id, status) == [id |-> id, status |-> status]

\* The machine as it is when an event sent to it goes unhandled.
NoReaction == [state |-> cState, ctx |-> cCtx, invoke |-> cInvoke, dequeued |-> <<>>]

\* Faulty variant: ENQUEUE_EVENT only queues the event, the eventless
\* transition out of idle is not taken with it.
OnEnqueueEventQueuesOnly(event) ==
    [state |-> cState, ctx |-> enqueueEvent(cCtx, event), invoke |-> cInvoke,
     dequeued |-> <<>>]

\* The machine's transition on ENQUEUE_EVENT / on an action event.
OnEnqueueEvent(event) == CSettle(cState, enqueueEvent(cCtx, event), cInvoke)

OnActionEvent(ctx2) ==
    IF cState = "executing" THEN CSettle("executing", ctx2, cInvoke) ELSE NoReaction

\* this.consciousActor?.send(...): the running actor takes the transition
\* `next`; a stopped actor drops the event and no actor receives none.
ActorSend(next, enqueued, reports) ==
    IF consciousActor = "running" /\ cStatus = "active"
    THEN /\ cState' = next.state
         /\ cCtx' = next.ctx
         /\ cInvoke' = next.invoke
         /\ dequeuedLog' = dequeuedLog \o next.dequeued
         /\ CHistoryAfter(next)
         /\ enqueuedLog' = enqueuedLog \o enqueued
         /\ cReports' = IF cState = "executing" THEN ReportsAfter(next, reports)
                        ELSE cReports
         /\ UNCHANGED <<cStatus, decideAttempt, lastError, decideOutcomes,
                        decideReturned, requiredFeedback>>
    ELSE UNCHANGED consciousVars

BrainInit ==
    /\ consciousActor = "running"
    /\ brainInFlight = <<>>
    /\ waitingForFeedbackIds = {}
    /\ feedbackDebounceTimer = NoTimer
    /\ feedbackBarrierTimer = NoTimer
    /\ debounceTimeouts = {}
    /\ barrierTimeouts = {}
    /\ brainEvents = 0
    /\ lastFeedback = [event |-> 0, age |-> 0]
    /\ burst = [size |-> 0, sends |-> 0]
    /\ processEventCalls = 0
    /\ reported = [n |-> 0, id |-> 0, kind |-> "none"]
    /\ awaitedFor = [id \in TurnIds |-> 0]

\* Faulty variant: a timer already armed is left to run and the new event is dropped.
debounceKeepFirst(timer, event) ==
    IF timer.armed THEN timer ELSE setTimeout(feedbackDebounceMs, event)

\* enqueueEvent, feedback branch: clearTimeout of the armed timer, setTimeout anew.
debounce(timer, event) == setTimeout(feedbackDebounceMs, event)

\* Brain.enqueueEvent for a feedback event (feedbackDebounceMs > 0): nothing is
\* sent now; without an actor the event is skipped.
EnqueueFeedback ==
    /\ brainEvents' = brainEvents + 1
    /\ IF consciousActor = "null"
       THEN UNCHANGED <<feedbackDebounceTimer, debounceTimeouts, lastFeedback, burst>>
       ELSE /\ feedbackDebounceTimer' = debounce(feedbackDebounceTimer, brainEvents + 1)
            /\ debounceTimeouts' =
                 clearTimeout(debounceTimeouts, feedbackDebounceTimer)
                    \cup {Handle(debounce(feedbackDebounceTimer, brainEvents + 1))}
            /\ lastFeedback' = [event |-> brainEvents + 1, age |-> 0]
            /\ burst' = IF feedbackDebounceTimer.armed
                        THEN [burst EXCEPT !.size = Min(@ + 1, 2)]
                        ELSE [size |-> 1, sends |-> 0]

\* The end of the action:completed and action:failed handlers: the barrier
\* timer is cleared once no id is awaited.
ClearBarrierWhenNoneAwaited ==
    IF Cardinality(waitingForFeedbackIds') = 0 /\ feedbackBarrierTimer.armed
    THEN /\ barrierTimeouts' = clearTimeout(barrierTimeouts, feedbackBarrierTimer)
         /\ feedbackBarrierTimer' = NoTimer
    ELSE UNCHANGED <<feedbackBarrierTimer, barrierTimeouts>>

\* Brain.processEvent from its decision on: the ids of the actions that
\* require feedback are awaited and the barrier timer is armed.
processEventBarrier(required) ==
    IF required # {}
    THEN /\ waitingForFeedbackIds' = waitingForFeedbackIds \cup required
         /\ barrierTimeouts' =
              clearTimeout(barrierTimeouts, feedbackBarrierTimer)
                 \cup {Handle(setTimeout(feedbackBarrierTimeoutMs, 0))}
         /\ feedbackBarrierTimer' = setTimeout(feedbackBarrierTimeoutMs, 0)
    ELSE UNCHANGED <<waitingForFeedbackIds, feedbackBarrierTimer, barrierTimeouts>>

\* A chat_message or social_presence signal: handlePerceptionSignal, then
\* enqueueEvent sends ENQUEUE_EVENT at once and processEventWithMachine runs
\* processEvent if the machine is then idle with a queued event.
BrainPerceptionSignal(type) ==
    /\ brainEvents < MaxBrainEvents
    /\ brainEvents' = brainEvents + 1
    /\ IF type = "chat_message"
       THEN /\ blackboard' = addChatMessage(blackboard, brainEvents + 1)
            /\ chatAdded' = Append(chatAdded, brainEvents + 1)
       ELSE UNCHANGED <<blackboard, chatAdded>>
    /\ ActorSend(OnEnqueueEvent(brainEvents + 1), <<brainEvents + 1>>, {})
    /\ IF consciousActor = "running" /\ Len(cCtx'.eventQueue) > 0 /\ cState' = "idle"
       THEN /\ processEventCalls' = processEventCalls + 1
            /\ \E required \in SUBSET (1..MaxExecutorId) : processEventBarrier(required)
       ELSE UNCHANGED <<processEventCalls, waitingForFeedbackIds, feedbackBarrierTimer,
                        barrierTimeouts>>
    /\ UNCHANGED <<consciousActor, brainInFlight, feedbackDebounceTimer, debounceTimeouts,
                   lastFeedback, burst, reported, linesAdded, awaitedFor>>
    /\ UNCHANGED outsideBrain

\* Brain.processEvent run for a turn of its own, from its decision on: the
\* decision issues actions of which those in `required` ask for feedback, and a
\* chat action or none. The ids are awaited and the barrier armed, the pending
\* lines rewritten, the bot's own chat message (0) recorded and the actions
\* handed to the executor, whose reports follow as they come.
processEvent(required, chat) ==
    /\ processEventCalls < MaxTurns
    /\ processEventCalls' = processEventCalls + 1
    /\ processEventBarrier(required)
    /\ LET bb == IF required # {}
                 THEN updatePendingActionsOnBlackboard(blackboard, brainInFlight,
                                                       waitingForFeedbackIds')
                 ELSE blackboard
       IN  IF chat
           THEN blackboard' = addChatMessage(bb, 0) /\ chatAdded' = Append(chatAdded, 0)
           ELSE blackboard' = bb /\ UNCHANGED chatAdded
    /\ UNCHANGED <<consciousActor, brainInFlight, feedbackDebounceTimer, debounceTimeouts, brainEvents,
                   lastFeedback, burst, reported, linesAdded, awaitedFor>>
    /\ UNCHANGED consciousVars
    /\ UNCHANGED outsideBrain

\* taskExecutor 'action:started'.
BrainActionStarted(id) ==
    /\ brainInFlight' = MapSet(brainInFlight, id)
    /\ blackboard' =
         updatePendingActionsOnBlackboard(blackboard, brainInFlight', waitingForFeedbackIds)
    /\ ActorSend(OnActionEvent(markActionStarted(cCtx, id)), <<>>, {})
    /\ UNCHANGED <<consciousActor, waitingForFeedbackIds, feedbackDebounceTimer, debounceTimeouts,
                   feedbackBarrierTimer, barrierTimeouts, brainEvents, lastFeedback, burst,
                   processEventCalls, reported, chatAdded, linesAdded, awaitedFor>>
    /\ UNCHANGED outsideBrain

\* Faulty variant: the outcome is added to the history only while the machine
\* is executing.
RecordOutcomeWhileExecuting(id, status) ==
    /\ brainInFlight' = MapDelete(brainInFlight, id)
    /\ waitingForFeedbackIds' = waitingForFeedbackIds \ {id}
    /\ awaitedFor' = [awaitedFor EXCEPT ![id] = 0]
    /\ blackboard' =
         IF cState = "executing"
         THEN addActionHistoryLine(
                updatePendingActionsOnBlackboard(blackboard, brainInFlight', waitingForFeedbackIds'),
                formatActionHistoryLine(id, status), DateNow)
         ELSE updatePendingActionsOnBlackboard(blackboard, brainInFlight', waitingForFeedbackIds')
    /\ linesAdded' = Append(linesAdded, formatActionHistoryLine(id, status))
    /\ ClearBarrierWhenNoneAwaited

\* What the action:completed and action:failed handlers share: the id leaves
\* the in-flight map and the awaited set, the pending lines are rewritten and
\* the outcome is added to the action history.
RecordOutcome(id, status) ==
    /\ brainInFlight' = MapDelete(brainInFlight, id)
    /\ waitingForFeedbackIds' = waitingForFeedbackIds \ {id}
    /\ awaitedFor' = [awaitedFor EXCEPT ![id] = 0]
    /\ blackboard' =
         addActionHistoryLine(
            updatePendingActionsOnBlackboard(blackboard, brainInFlight', waitingForFeedbackIds'),
            formatActionHistoryLine(id, status), DateNow)
    /\ linesAdded' = Append(linesAdded, formatActionHistoryLine(id, status))
    /\ ClearBarrierWhenNoneAwaited

\* taskExecutor 'action:completed'; feedback is enqueued when the action asks for it.
BrainActionCompleted(id, require_feedback) ==
    /\ reported.n < MaxReports
    /\ reported' = [n |-> reported.n + 1, id |-> id, kind |-> "completed"]
    /\ RecordOutcome(id, "success")
    /\ ActorSend(OnActionEvent(markActionCompleted(cCtx, id)), <<>>, {id})
    /\ IF require_feedback
       THEN brainEvents < MaxBrainEvents /\ EnqueueFeedback
       ELSE UNCHANGED <<brainEvents, feedbackDebounceTimer, debounceTimeouts, lastFeedback, burst>>
    /\ UNCHANGED <<consciousActor, processEventCalls, chatAdded>>
    /\ UNCHANGED outsideBrain

\* taskExecutor 'action:failed': feedback is always enqueued. The machine's
\* handler of ACTION_FAILED leaves its context as it is.
BrainActionFailed(id) ==
    /\ brainEvents < MaxBrainEvents
    /\ reported.n < MaxReports
    /\ reported' = [n |-> reported.n + 1, id |-> id, kind |-> "failed"]
    /\ RecordOutcome(id, "failure")
    /\ ActorSend(OnActionEvent(cCtx), <<>>, {id})
    /\ EnqueueFeedback
    /\ UNCHANGED <<consciousActor, processEventCalls, chatAdded>>
    /\ UNCHANGED outsideBrain

\* The timeouts of the runtime that are due.
DueTimers == {t \in debounceTimeouts \cup barrierTimeouts : t.remaining = 0}

\* The callback of a due timeout runs, once. Debounce: the field is reset and
\* the event of the closure is sent with ENQUEUE_EVENT. Barrier: the field is
\* reset and the awaited set is cleared.
BrainTimerFires ==
    /\ \/ \E t \in debounceTimeouts \cap DueTimers :
            /\ debounceTimeouts' = debounceTimeouts \ {t}
            /\ feedbackDebounceTimer' = NoTimer
            /\ ActorSend(OnEnqueueEvent(t.event), <<t.event>>, {})
            /\ burst' = IF consciousActor = "running"
                        THEN [burst EXCEPT !.sends = @ + 1] ELSE burst
            /\ UNCHANGED <<feedbackBarrierTimer, barrierTimeouts, waitingForFeedbackIds,
                           blackboard, awaitedFor>>
       \/ \E t \in barrierTimeouts \cap DueTimers :
            /\ barrierTimeouts' = barrierTimeouts \ {t}
            /\ feedbackBarrierTimer' = NoTimer
            /\ waitingForFeedbackIds' = {}
            /\ awaitedFor' = [id \in TurnIds |-> 0]
            /\ blackboard' = updatePendingActionsOnBlackboard(blackboard, brainInFlight, {})
            /\ UNCHANGED <<feedbackDebounceTimer, debounceTimeouts, burst>>
            /\ UNCHANGED consciousVars
    /\ UNCHANGED <<consciousActor, brainInFlight, brainEvents, lastFeedback,
                   processEventCalls, reported, chatAdded, linesAdded>>
    /\ UNCHANGED outsideBrain

\* Time passes, up to the moment the next timeout is due.
Elapse(timer) == IF timer.armed THEN [timer EXCEPT !.remaining = @ - 1] ELSE timer

ElapseAll(timeouts) == {[t EXCEPT !.remaining = @ - 1] : t \in timeouts}

BrainTick ==
    /\ DueTimers = {}
    /\ feedbackDebounceTimer' = Elapse(feedbackDebounceTimer)
    /\ feedbackBarrierTimer' = Elapse(feedbackBarrierTimer)
    /\ debounceTimeouts' = ElapseAll(debounceTimeouts)
    /\ barrierTimeouts' = ElapseAll(barrierTimeouts)
    /\ lastFeedback' = IF feedbackDebounceTimer.armed
                       THEN [lastFeedback EXCEPT !.age = @ + 1] ELSE lastFeedback
    /\ awaitedFor' = [id \in TurnIds |->
                        IF id \in waitingForFeedbackIds THEN awaitedFor[id] + 1 ELSE 0]
    /\ UNCHANGED <<consciousActor, brainInFlight, waitingForFeedbackIds,
                   brainEvents, burst, processEventCalls, reported>>
    /\ UNCHANGED <<consciousVars, blackboardVars>>
    /\ UNCHANGED outsideBrain

\* Brain.destroy: the actor is stopped and forgotten; nothing else is touched.
BrainDestroy ==
    /\ consciousActor = "running"
    /\ consciousActor' = "null"
    /\ cStatus' = "stopped"
    /\ cInvoke' = "none"
    /\ UNCHANGED <<cState, cCtx, decideAttempt, enqueuedLog, dequeuedLog, llmCalls,
                   fatalAt, lastError, decideOutcomes, decideReturned, requiredFeedback,
                   cReports>>
    /\ UNCHANGED <<brainInFlight, waitingForFeedbackIds,
                   feedbackDebounceTimer, debounceTimeouts, feedbackBarrierTimer, barrierTimeouts, brainEvents,
                   lastFeedback, burst, processEventCalls, reported, awaitedFor>>
    /\ UNCHANGED blackboardVars
    /\ UNCHANGED outsideBrain

\* ------------------------------------------------------------------------
\* Specifications
\* ------------------------------------------------------------------------


\* The behaviours of a tick that is not under study.
SelectIdle ==
    /\ selBehaviors = [i \in 1..NBehaviors |->
                          [inMode |-> FALSE, when |-> FALSE, score |-> 0,
                           cooldownMs |-> 0, lastRunAt |-> 0]]
    /\ selNow = 2
    /\ selPicked = [by |-> "none", index |-> NoPick]

InitOthers ==
    /\ PerceptionInit /\ PipelineInitState /\ ReflexInit /\ ConsciousInit
    /\ BlackboardInit /\ BrainInit /\ ManagerInit

Init == InitOthers /\ SelectIdle

\* --- The saliency engine: events of one entity shape, sounds, and the slot timer.
SaliencyEvents ==
    { e \in SneakToggleEvents : e.entityId = "e1" /\ e.sneaking = "true" }
      \cup SoundEvents \cup ItemCollectedEvents

SaliencyRawEvent == \E event \in SaliencyEvents : PmRawEvent(event)

SaliencyNext == PmStart \/ PmStop \/ SaliencyRawEvent \/ PmTick

SpecSaliency == Init /\ [][SaliencyNext]_vars

\* --- The belief store of the machine: every entity-bearing event shape.
BeliefEvents == SneakToggleEvents \cup EntityMovedEvents \cup ItemCollectedEvents

BeliefRawEvent == \E event \in BeliefEvents : PmRawEvent(event)

BeliefNext == PmStart \/ PmStop \/ BeliefRawEvent \/ ClockAdvance

SpecBelief == Init /\ [][BeliefNext]_vars

\* --- The pipeline: frames of player, mob and sound events, stages that may
\* throw, and the slot timer of the pipeline's perception actor.
PipelineEvents ==
    { e \in SneakToggleEvents : e.sneaking = "true" }
      \cup { e \in EntityMovedEvents : e.entityId = "e1" /\ e.entityType = "mob"
                                        /\ e.displayName = Undef /\ e.pos = "p2" }
      \cup { e \in SoundEvents : e.passes }

ThrowPoints == {"none", "entity_update", "attention"}

PipelineIngestAny ==
    \E event \in PipelineEvents : \E throwAt \in ThrowPoints : PipelineIngest(event, throwAt)

PipelineNext == PipelineInit \/ PipelineDestroy \/ PipelineIngestAny \/ PmTick

SpecPipeline == Init /\ [][PipelineNext]_vars

\* --- The reflex mode machine under health and threat updates, chat signals,
\* nearby players, task events and mode overrides.
HealthValues == {9, 10, 14, 15}
ThreatValues == {3, 4, 5, 6}

ContextPatches ==
    { [now |-> Absent, health |-> h, threatScore |-> Absent] : h \in HealthValues }
      \cup { [now |-> Absent, health |-> Absent, threatScore |-> t] : t \in ThreatValues }
      \cup { [now |-> Absent, health |-> h, threatScore |-> t] : h \in {9, 15}, t \in {3, 6} }

ReflexUpdateContextAny == \E patch \in ContextPatches : ReflexUpdateContext(patch)
ReflexSignalAny == \E signalType \in {"chat_message", "social_gesture"} : ReflexSignal(signalType)
ReflexUpdateEnvironmentAny == \E n \in {0, 1} : ReflexUpdateEnvironment(n)
ReflexModeOverrideAny == \E mode \in ReflexModes : ReflexModeOverride(mode)

ReflexNext ==
    \/ ReflexUpdateContextAny
    \/ ReflexSignalAny
    \/ ReflexUpdateEnvironmentAny
    \/ ReflexTaskStarted
    \/ ReflexTaskCompleted
    \/ ReflexTaskFailed
    \/ ReflexModeOverrideAny
    \/ ReflexTick
    \/ ReflexClockAdvance
    \/ ReflexDestroy

SpecReflex == Init /\ [][ReflexNext]_vars

\* --- The manager's tick loop: chat and attention signals, players coming and
\* going, ticks, and intent executions settling.
ManagerOnSignalAny ==
    \/ \E speaker \in Speakers, message \in {"hi", "other"} :
          ManagerOnSignal("chat_message", speaker, message)
    \/ ManagerOnSignal("entity_attention", "none", "none")

ManagerOnTickAny == \E teabaggers \in BOOLEAN, found \in BOOLEAN : ManagerOnTick(teabaggers, found)

ManagerNext ==
    \/ ManagerOnSignalAny
    \/ ManagerOnTickAny
    \/ ManagerExecuteSettles
    \/ ReflexUpdateEnvironmentAny
    \/ ManagerClockAdvance

SpecManager == Init /\ [][ManagerNext]_vars

\* --- Behaviour selection on one tick, over every evaluation of three behaviours.
SelectNext == SelectOnTick \/ SelectBehaviorCall

SelectSpecInit == InitOthers /\ SelectInit

SpecSelect == SelectSpecInit /\ [][SelectNext]_vars

\* --- The conscious machine with the Brain's decide as its callLLM.
CDecideAttemptFailsAny == \E err \in DecisionErrors : CDecideAttemptFails(err)
CDecideSucceedsAny == \E n \in 0..MaxActionId : CDecideSucceeds(n)
CActionStartedAny == \E actionId \in 1..MaxActionId : CActionStarted(actionId)
CActionCompletedAny == \E actionId \in 1..MaxActionId : CActionCompleted(actionId)
CActionFailedAny == \E actionId \in 1..MaxActionId : CActionFailed(actionId)

ConsciousNext ==
    \/ CEnqueue
    \/ CBuildContextDone
    \/ CBuildContextError
    \/ CDecideAttemptFailsAny
    \/ CDecideNothing
    \/ CDecideSucceedsAny
    \/ CExecuteResolves
    \/ CExecuteRejects
    \/ CActionStartedAny
    \/ CActionCompletedAny
    \/ CActionFailedAny

SpecConscious == Init /\ [][ConsciousNext]_vars

\* The executor reports on action actionId, which the machine holds and has no
\* report of yet: ACTION_COMPLETED or ACTION_FAILED reaches the machine.
ActionReports(actionId) ==
    /\ cState = "executing" /\ cStatus = "active"
    /\ actionId \in (cCtx.pendingActions \cup cCtx.inFlightActions) \ cReports
    /\ CActionCompleted(actionId) \/ CActionFailed(actionId)

\* The conscious machine with an executor that reports on every action.
SpecConsciousFair ==
    /\ Init
    /\ [][ConsciousNext]_vars
    /\ \A actionId \in 1..MaxActionId : WF_vars(ActionReports(actionId))

\* The outstanding call of callLLM settles: decide throws, returns nothing or
\* returns a response.
CallSettles == CDecideAttemptFailsAny \/ CDecideNothing \/ CDecideSucceedsAny

\* The conscious machine with a reasoning service that settles every call.
SpecConsciousCalls ==
    /\ Init
    /\ [][ConsciousNext]_vars
    /\ WF_vars(CallSettles)

\* --- The Blackboard under its public operations.
MaxListPatch == 13

BlackboardPatches ==
    {[currentTask |-> "mining"]}
      \cup {[chatHistory |-> [i \in 1..n |-> 0]] : n \in {0, MAX_CHAT_HISTORY + 1}}
      \cup {[pendingActions |-> [i \in 1..n |-> 0]] : n \in {0, MaxListPatch}}

BlackboardSetPendingActionsAny == \E n \in 0..MaxListPatch : BlackboardSetPendingActions(n)
BlackboardUpdateAny == \E updates \in BlackboardPatches : BlackboardUpdate(updates)

BlackboardNext ==
    \/ BlackboardAddChatMessage
    \/ BlackboardAddActionHistoryLine
    \/ BlackboardSetPendingActionsAny
    \/ BlackboardUpdateAny

SpecBlackboard == Init /\ [][BlackboardNext]_vars

\* --- The Brain with its conscious actor, the executor's reports and the clock.
BrainDecisionErrors ==
    {err \in DecisionErrors :
        err.status = 429 /\ err.code = "none" /\ ~err.msgTransient /\ ~err.msgAuth}

BrainPerceptionSignalAny ==
    \E type \in {"chat_message"} : BrainPerceptionSignal(type)
BrainActionStartedAny == \E id \in ExecutorIds : BrainActionStarted(id)
BrainActionCompletedAny ==
    \E id \in ExecutorIds, require_feedback \in BOOLEAN : BrainActionCompleted(id, require_feedback)
BrainActionFailedAny == \E id \in ExecutorIds : BrainActionFailed(id)
BrainDecideAttemptFails == \E err \in BrainDecisionErrors : CDecideAttemptFails(err)

\* Brain.init hands the machine no executeActions, so executePendingActions
\* always rejects (CExecuteRejects).
BrainNext ==
    \/ BrainPerceptionSignalAny
    \/ BrainActionStartedAny
    \/ BrainActionCompletedAny
    \/ BrainActionFailedAny
    \/ BrainTimerFires
    \/ BrainTick
    \/ BrainDestroy
    \/ CBuildContextDone
    \/ BrainDecideAttemptFails
    \/ CDecideNothing
    \/ CDecideSucceedsAny
    \/ CExecuteRejects

SpecBrain == Init /\ [][BrainNext]_vars

\* The feedback barrier by itself: turns of processEvent that issue actions
\* with fresh ids, the executor's reports, the timers and destroy.
processEventAny ==
    \E required \in SUBSET {id \in TurnIds : id \notin waitingForFeedbackIds /\ awaitedFor[id] = 0},
       chat \in BOOLEAN :
        processEvent(required, chat)

BarrierNext ==
    \/ processEventAny
    \/ BrainActionStartedAny
    \/ BrainActionCompletedAny
    \/ BrainActionFailedAny
    \/ BrainTimerFires
    \/ BrainTick
    \/ BrainDestroy

SpecBarrier == Init /\ [][BarrierNext]_vars

\* ------------------------------------------------------------------------
\* Properties of the saliency engine (SpecSaliency)
\* ------------------------------------------------------------------------

\* C1: for every saliency counter, in every state reachable by interleavings
\* of RAW_EVENT ingests and TICK advances, total equals the sum of counts.
C1_TotalIsSumOfCounts ==
    \A k \in EVENT_KEYS : counters[k].total = SumSeq(counters[k].counts)

\* A counter that fired, counted again, and whose window has wrapped around.
C1_Witness ==
    \E k \in EVENT_KEYS :
        /\ signals[k] >= 1
        /\ counters[k].total >= 1
        /\ currentSlot >= WINDOW_SIZE

\* C2: as long as the rule of a key has not fired, the key's total is the
\* number of accepted events ingested during the latest WINDOW_SIZE slots,
\* the current one included: an event stops contributing after WINDOW_SIZE
\* advances and not earlier.
C2_SlidingWindow ==
    \A k \in EVENT_KEYS :
        signals[k] = 0 => counters[k].total = SumSeq(slotLog[k])

\* Two events were counted, the older has expired and the newer still counts.
C2_Witness ==
    \E k \in EVENT_KEYS :
        /\ signals[k] = 0
        /\ accepted[k] = 2
        /\ counters[k].total = 1
        /\ slotLog[k][1] = 1

\* C3: an accepted RAW_EVENT that brings a key's total to the threshold or
\* above hands exactly one signal to the callback and leaves total and
\* every count at zero; no step hands over more than one signal, and every
\* signal of a key has its own threshold-many accepted events.
C3_FireOnceAndReset ==
    /\ [][\A k \in EVENT_KEYS :
            /\ (accepted'[k] # accepted[k] /\ counters[k].total + 1 >= ThresholdOf(k))
                  => signals'[k] = signals[k] + 1
            /\ signals'[k] # signals[k]
                  => /\ signals'[k] = signals[k] + 1
                     /\ accepted'[k] = accepted[k] + 1
                     /\ counters'[k].total = 0
                     /\ counters'[k].counts = Zeros(WINDOW_SIZE)]_vars
    /\ [](\A k \in EVENT_KEYS : signals[k] * ThresholdOf(k) <= accepted[k])

\* A key has fired twice, each time on threshold-many events, and is at zero.
C3_Witness ==
    \E k \in EVENT_KEYS :
        /\ signals[k] = 2
        /\ accepted[k] = 2 * ThresholdOf(k)
        /\ counters[k].total = 0

\* ------------------------------------------------------------------------
\* Properties of the machine's belief store (SpecBelief)
\* ------------------------------------------------------------------------

\* The belief that updateEntityBelief builds from one event alone.
BeliefFields(event) ==
    [id |-> event.entityId,
     type |-> IF event.entityType = "player" THEN "player" ELSE "mob",
     name |-> event.displayName,
     position |-> event.pos,
     isSneaking |-> event.sneaking]

\* C5: belief upserts are last-write-wins: the stored belief of an id equals
\* the belief built from the last event of that id alone, whatever was
\* stored before, and an event changes the belief of no other id.
C5_LastWriteWins ==
    /\ [](\A id \in EntityIds :
            IF lastRaw[id] = NoEvent THEN entities[id] = NoBelief
            ELSE /\ [f \in DOMAIN BeliefFields(lastRaw[id]) |-> entities[id][f]]
                      = BeliefFields(lastRaw[id])
                 /\ entities[id].lastUpdatedAt <= now)
    /\ [][\A id \in EntityIds :
            entities'[id] # entities[id]
               => /\ lastRaw'[id] # NoEvent
                  /\ \A other \in EntityIds \ {id} : entities'[other] = entities[other]]_vars

\* An id whose belief was overwritten by an event without name and position,
\* while the other id keeps an older belief.
C5_Witness ==
    \E id \in EntityIds : \E other \in EntityIds \ {id} :
        /\ upserts[id] = 2
        /\ entities[id].name = Undef
        /\ entities[id].lastUpdatedAt = MaxNow
        /\ upserts[other] >= 1
        /\ entities[other].name = "A"
        /\ entities[other].lastUpdatedAt = 0

\* ------------------------------------------------------------------------
\* Properties of the perception pipeline (SpecPipeline)
\* ------------------------------------------------------------------------

\* C4: end to end through the pipeline, every raw event ingested while the
\* pipeline is initialized is counted by the saliency engine, so threshold-many
\* matching events within one window produce a signal that the router emits
\* as a `perception` event on the bus.
C4_IngestedEventsAreCounted ==
    \A k \in EVENT_KEYS :
        /\ initialized => accepted[k] >= offered[k].n
        /\ offered[k].n >= ThresholdOf(k) => busPerception >= 1

\* The stages up to and including the one named; all of them for "none".
StagesThrough(name) ==
    IF name = "none" THEN stages
    ELSE SubSeq(stages, 1, CHOOSE i \in 1..Len(stages) : stages[i] = name)

\* C6: a stage that throws ends the processing of that frame only: no later
\* stage runs for it, the exception stays inside ingest, currentFrame is null
\* afterwards and the initialized flag is untouched; a frame whose stages do
\* not throw runs entity_update, attention, router in order and is republished
\* on the bus, whatever happened to the frames before it.
C6_StageFailureIsContained ==
    /\ [](/\ currentFrame = NoFrame
          /\ ~lastIngest.escaped
          /\ frames > 0 => lastIngest.run = StagesThrough(lastIngest.thrownAt))
    /\ [][frames' # frames
            => /\ initialized /\ initialized'
               /\ lastIngest'.thrownAt = "none"
                    => lastIngest'.run = stages /\ busRaw' = busRaw + 1]_vars

\* A frame failed in the attention stage and the next frame ran every stage.
C6_Witness ==
    /\ initialized
    /\ prevThrownAt = "attention"
    /\ lastIngest.thrownAt = "none"
    /\ lastIngest.run = stages
    /\ busRaw >= 1

\* ------------------------------------------------------------------------
\* Properties of the reflex mode machine (SpecReflex)
\* ------------------------------------------------------------------------

AlertCondition(ctx) == ctx.health < 10 \/ ctx.threatScore > 5
CalmCondition(ctx) == ctx.health >= 15 /\ ctx.threatScore <= 3

\* C7 as stated: from idle, an event that leaves health < 10 or threat > 5
\* leaves the mode alert; from alert, an event that leaves health >= 15 and
\* threat <= 3 leaves the mode idle; and the mode stays alert for every
\* context with health < 15 or threat > 3.
C7_HysteresisAsStated ==
    [][/\ (reflexMode = "idle" /\ AlertCondition(reflexCtx')) => reflexMode' = "alert"
       /\ (reflexMode = "alert" /\ CalmCondition(reflexCtx')) => reflexMode' = "idle"
       /\ (reflexMode = "alert" /\ ~CalmCondition(reflexCtx')) => reflexMode' = "alert"]_vars

\* C7 amended: from idle, an event that leaves health < 10 or threat > 5
\* leaves the mode alert. From alert, an event that leaves health >= 15 and
\* threat <= 3 takes the machine to idle in the same step, where it stays
\* unless the social guard holds at that moment, in which case it goes on to
\* social. In a context with health < 15 or threat > 3 the machine stays
\* alert under every event except TASK_STARTED, which moves it to work.
C7_Hysteresis ==
    /\ [][/\ (reflexMode = "idle" /\ AlertCondition(reflexCtx')) => reflexMode' = "alert"
          /\ (reflexMode = "alert" /\ CalmCondition(reflexCtx'))
               => /\ reflexEntered'[1] = "idle"
                  /\ reflexMode' = IF canEnterSocial(reflexCtx') THEN "social" ELSE "idle"
          /\ (reflexMode = "alert" /\ ~CalmCondition(reflexCtx'))
               => \/ reflexMode' = "alert"
                  \/ /\ reflexMode' = "work"
                     /\ reflexCtx'.inFlightActionsCount
                          = reflexCtx.inFlightActionsCount + 1]_vars
    /\ [](/\ reflexMode = "idle" => ~AlertCondition(reflexCtx)
          /\ reflexMode = "alert" => ~CalmCondition(reflexCtx))

\* The machine is alert with health between the two thresholds: it was raised
\* below 10 and has not yet recovered to 15.
C7_Witness ==
    /\ reflexMode = "alert"
    /\ reflexCtx.health = 14
    /\ reflexCtx.threatScore = 3

\* ------------------------------------------------------------------------
\* Properties of behaviour selection (SpecSelect)
\* ------------------------------------------------------------------------

\* Eligible on this tick: mode member, off cooldown, `when` true.
Eligible(i) ==
    LET b == selBehaviors[i] IN
    /\ b.inMode
    /\ b.when
    /\ ~(b.cooldownMs > 0 /\ b.lastRunAt # 0 /\ selNow - b.lastRunAt < b.cooldownMs)

EligibleSet == { i \in 1..NBehaviors : Eligible(i) }

\* The first-registered behaviour among the eligible ones of highest score.
FirstBest ==
    CHOOSE i \in EligibleSet :
        \A j \in EligibleSet :
            \/ selBehaviors[j].score < selBehaviors[i].score
            \/ selBehaviors[j].score = selBehaviors[i].score /\ i <= j

\* C8 as stated: whenever some behaviour is eligible, the selector picks the
\* eligible behaviour of highest score, the first-registered among equals.
C8_SelectionAsStated ==
    (selPicked.by # "none" /\ EligibleSet # {}) => selPicked.index = FirstBest

\* C8 amended: nothing but an eligible behaviour is picked, and whenever the
\* highest score among the eligible behaviours is positive, the selector picks
\* the eligible behaviour of that score that was registered first.
C8_Selection ==
    selPicked.by # "none" =>
        /\ selPicked.index # NoPick => selPicked.index \in EligibleSet
        /\ (EligibleSet # {} /\ selBehaviors[FirstBest].score > 0)
              => selPicked.index = FirstBest

\* selectBehavior picked the first of two eligible behaviours of equal, highest
\* score although a third eligible behaviour precedes them with a lower score.
C8_Witness ==
    /\ selPicked = [by |-> "selectBehavior", index |-> 2]
    /\ EligibleSet = {1, 2, 3}
    /\ selBehaviors[1].score < selBehaviors[2].score
    /\ selBehaviors[2].score = selBehaviors[3].score

\* ------------------------------------------------------------------------
\* Properties of the conscious machine (SpecConscious)
\* ------------------------------------------------------------------------

\* C9: ENQUEUE_EVENT appends the event to the tail of the queue in every state
\* of the machine, and events are dequeued in enqueue order, one at a time,
\* each exactly once: the dequeued events followed by the queue are the
\* enqueued events, the current event is the one dequeued last, and no event
\* is dequeued while the decision of the previous one is still running.
C9_QueueIsFifo ==
    /\ [](/\ dequeuedLog \o cCtx.eventQueue = enqueuedLog
          /\ cCtx.currentEvent # 0 =>
                /\ dequeuedLog # <<>>
                /\ cCtx.currentEvent = dequeuedLog[Len(dequeuedLog)])
    /\ [][/\ enqueuedLog' # enqueuedLog
               => /\ enqueuedLog' = Append(enqueuedLog, Len(enqueuedLog) + 1)
                  /\ \/ cCtx'.eventQueue = Append(cCtx.eventQueue, Len(enqueuedLog) + 1)
                     \/ /\ cCtx.eventQueue = <<>>
                        /\ cCtx'.eventQueue = <<>>
                        /\ cCtx'.currentEvent = Len(enqueuedLog) + 1
          /\ dequeuedLog' # dequeuedLog
               => /\ Len(dequeuedLog') = Len(dequeuedLog) + 1
                  /\ cState' = "thinking"
                  /\ cCtx'.currentEvent = enqueuedLog'[Len(dequeuedLog')]
                  /\ cInvoke' = "buildContext"
                  /\ decideAttempt' = 0]_vars

\* Three events were enqueued, the later ones while the machine was busy; two
\* have been dequeued and the third waits in the queue.
C9_Witness ==
    /\ enqueuedLog = <<1, 2, 3>>
    /\ dequeuedLog = <<1, 2>>
    /\ cCtx.eventQueue = <<3>>
    /\ cCtx.currentEvent = 2
    /\ cState = "deciding"

\* C10: a decision attempt that fails with an auth/credential/bad-argument
\* signature is not retried: no further reasoning-service call is made for the
\* event, decide has raised the error (no call is outstanding), and when the
\* failing attempt was the first, the service was called exactly once; this
\* also holds when the error matches a transient signature too.
FatalSignature(err) == err.status \in {401, 403} \/ err.msgAuth

C10_FatalErrorNotRetried ==
    /\ [](fatalAt # 0 =>
            /\ llmCalls = fatalAt
            /\ cInvoke # "callLLM"
            /\ decideAttempt = 0)
    /\ [][(cInvoke = "callLLM" /\ lastError' # lastError /\ FatalSignature(lastError'))
            => /\ fatalAt' = llmCalls
               /\ llmCalls' = llmCalls
               /\ cInvoke' = "none"]_vars

\* The first attempt failed with status 401 and a message that also reads as a
\* timeout: one call was made and the error was raised to the machine.
C10_Witness ==
    /\ lastError.status = 401
    /\ lastError.msgTransient
    /\ fatalAt = 1
    /\ llmCalls = 1
    /\ cState = "deciding"
    /\ cCtx.retryCount = 1

\* C11: a decide call whose attempts so far all failed with a transient
\* signature, fewer of them than the attempt ceiling, is still running with
\* its next attempt outstanding and the retry count untouched; when that
\* attempt succeeds its response is what the machine receives (its actions
\* become pending) and the retry count is 0; and the retry count is 0
\* whenever an event is dequeued for the next decision cycle.
OnlyTransient(outcomes) == \A i \in 1..Len(outcomes) : outcomes[i] = "transient"

C11_TransientFailuresThenSuccess ==
    /\ [](/\ decideOutcomes # <<>>
          /\ OnlyTransient(decideOutcomes)
          /\ Len(decideOutcomes) < maxAttempts
          => /\ cInvoke = "callLLM"
             /\ cState = "deciding"
             /\ decideAttempt = Len(decideOutcomes) + 1
             /\ cCtx.retryCount = 0)
    /\ [][/\ (/\ OnlyTransient(decideOutcomes)
              /\ decideOutcomes' = Append(decideOutcomes, "ok"))
             => /\ decideReturned' \in 0..MaxActionId
                /\ cCtx'.nextActionId = cCtx.nextActionId + decideReturned'
                /\ cCtx.nextActionId .. cCtx'.nextActionId - 1 \subseteq cCtx'.pendingActions
                /\ cState' # "deciding"
                /\ cCtx'.retryCount = 0
          /\ dequeuedLog' # dequeuedLog => cCtx'.retryCount = 0]_vars

\* Two attempts failed with a transient signature and the third returned a
\* response; the next event has been dequeued with the retry count at 0.
C11_Witness ==
    /\ decideOutcomes = <<"transient", "transient", "ok">>
    /\ decideReturned = 0
    /\ Len(dequeuedLog) = 2
    /\ cState = "thinking"
    /\ cCtx.retryCount = 0

\* C12: whenever the conscious machine is in idle, thinking or deciding, no
\* action is pending or in flight; hence the actions pending when evaluating
\* hands over to executing are exactly those of the decision just made.
C12_ActionsDrainedBetweenTurns ==
    /\ [](cState \in {"idle", "thinking", "deciding"} => allActionsDone(cCtx))
    /\ [][decideOutcomes' = Append(decideOutcomes, "ok")
            => /\ allActionsDone(cCtx)
               /\ cCtx'.pendingActions = cCtx.nextActionId .. cCtx'.nextActionId - 1
               /\ cCtx'.inFlightActions = {}]_vars

\* A first turn issued an action that was started and completed; the machine
\* then dequeued the second event and is deciding with nothing left over.
C12_Witness ==
    /\ Len(dequeuedLog) = 2
    /\ cCtx.nextActionId = 2
    /\ cState = "deciding"
    /\ cInvoke = "callLLM"
    /\ allActionsDone(cCtx)

\* ------------------------------------------------------------------------
\* Properties of the Brain (SpecBrain)
\* ------------------------------------------------------------------------

\* C13: feedback events are debounced. While the debounce timer is armed it
\* holds the latest feedback event and runs out one debounce interval after
\* that event arrived, so an event arriving less than the interval after the
\* previous one finds the timer armed: it replaces the event held and nothing
\* is sent. The timer fires only when the interval has passed since the last
\* event of the burst and then sends that event with ENQUEUE_EVENT: one send
\* per burst, and none for a feedback event at any other moment. (After
\* destroy there is no actor left to send to.)
C13_FeedbackDebounce ==
    /\ [](/\ feedbackDebounceTimer.armed
             => /\ feedbackDebounceTimer.event = lastFeedback.event
                /\ feedbackDebounceTimer.remaining = feedbackDebounceMs - lastFeedback.age
                /\ feedbackDebounceTimer.remaining >= 0
                /\ burst.size >= 1
                /\ burst.sends = 0
          /\ (~feedbackDebounceTimer.armed /\ burst.size > 0)
             => (burst.sends = 1 \/ consciousActor = "null")
          /\ burst.sends <= 1)
    /\ [][/\ (lastFeedback'.event # lastFeedback.event /\ feedbackDebounceTimer.armed)
             => /\ feedbackDebounceTimer' = setTimeout(feedbackDebounceMs, lastFeedback'.event)
                /\ burst'.size > 1
                /\ burst'.sends = 0
                /\ enqueuedLog' = enqueuedLog
          /\ (feedbackDebounceTimer.armed /\ ~feedbackDebounceTimer'.armed)
             => /\ lastFeedback.age = feedbackDebounceMs
                /\ (consciousActor = "running" /\ cStatus = "active")
                   => enqueuedLog' = Append(enqueuedLog, lastFeedback.event)
                /\ consciousActor = "running" => burst'.sends = 1
          /\ enqueuedLog' # enqueuedLog
             => \/ feedbackDebounceTimer.armed /\ ~feedbackDebounceTimer'.armed
                \/ /\ brainEvents' = brainEvents + 1
                   /\ lastFeedback' = lastFeedback
                   /\ enqueuedLog' = Append(enqueuedLog, brainEvents')]_vars

\* Two feedback events arrived in one burst; the timer fired one interval
\* after the second and the machine was sent the second event only.
C13_Witness ==
    /\ burst = [size |-> 2, sends |-> 1]
    /\ lastFeedback = [event |-> 2, age |-> feedbackDebounceMs]
    /\ enqueuedLog = <<2>>
    /\ ~feedbackDebounceTimer.armed
    /\ consciousActor = "running"

\* Brain.processEvent, the one place that awaits feedback ids and arms the
\* barrier timer, is never run: after ENQUEUE_EVENT the machine is not in idle
\* with a queued event. So no id is ever awaited and the barrier is never armed.
ProcessEventNeverRuns ==
    /\ processEventCalls = 0
    /\ waitingForFeedbackIds = {}
    /\ ~feedbackBarrierTimer.armed

\* C14: whenever a decision is produced whose actions include some that
\* require feedback, the ids of those actions are in the waiting-for-feedback
\* set and the barrier timer is armed once the decision has been taken over
\* for execution.
C14_BarrierArmedOnRequiredFeedback ==
    [][(decideOutcomes' = Append(decideOutcomes, "ok") /\ requiredFeedback' # {})
          => /\ requiredFeedback' \subseteq waitingForFeedbackIds'
             /\ feedbackBarrierTimer'.armed]_vars

\* C15: every action:failed report is recorded at once, whatever state the
\* conscious machine is in and whether or not a debounce timer is running:
\* in the step that receives it, a failure line for the action becomes the
\* newest line of recentActionHistory (the earlier lines kept, up to the
\* ring's size), and the action's id is neither in the Brain's in-flight map
\* nor in the waiting-for-feedback set afterwards.
Range(seq) == {seq[i] : i \in 1..Len(seq)}

C15_FailureAlwaysRecorded ==
    [][(reported'.n = reported.n + 1 /\ reported'.kind = "failed")
          => LET entry == [line |-> formatActionHistoryLine(reported'.id, "failure"),
                           timestamp |-> DateNow]
                 history == blackboard'.recentActionHistory
             IN  /\ history # <<>>
                 /\ history[Len(history)] = entry
                 /\ history = LastN(Append(blackboard.recentActionHistory, entry),
                                    MAX_ACTION_HISTORY)
                 /\ reported'.id \notin Range(brainInFlight')
                 /\ reported'.id \notin waitingForFeedbackIds']_vars

\* A failure of an in-flight action arrived while the machine was deciding and
\* the debounce timer was running for an earlier failure: both are on record
\* and the action is no longer in flight.
C15_Witness ==
    /\ reported = [n |-> 2, id |-> 1, kind |-> "failed"]
    /\ cState = "deciding"
    /\ burst.size = 2
    /\ feedbackDebounceTimer.armed
    /\ brainInFlight = <<>>
    /\ blackboard.recentActionHistory =
         << [line |-> formatActionHistoryLine(1, "failure"), timestamp |-> DateNow],
            [line |-> formatActionHistoryLine(1, "failure"), timestamp |-> DateNow] >>

\* ------------------------------------------------------------------------
\* Properties of the Blackboard (SpecBlackboard)
\* ------------------------------------------------------------------------

\* C16: the blackboard's histories are bounded FIFO rings. In every state
\* reached through the Blackboard's public operations chatHistory has at most
\* 8 entries, recentActionHistory at most 12 and pendingActions at most 12;
\* recentActionHistory holds the most recent min(n, 12) of the n lines added,
\* in order; and addChatMessage appends the message, evicting the oldest one
\* when 8 are held, so that the most recent min(n, 8) messages remain.
C16_BoundedFifoRings ==
    /\ [](/\ Len(blackboard.chatHistory) <= MAX_CHAT_HISTORY
          /\ Len(blackboard.recentActionHistory) <= MAX_ACTION_HISTORY
          /\ Len(blackboard.pendingActions) <= MAX_PENDING_ACTIONS
          /\ blackboard.recentActionHistory =
                [i \in 1..Min(Len(linesAdded), MAX_ACTION_HISTORY) |->
                    [line |-> LastN(linesAdded, MAX_ACTION_HISTORY)[i], timestamp |-> DateNow]])
    /\ [][chatAdded' # chatAdded
            => blackboard'.chatHistory =
                  LastN(Append(blackboard.chatHistory, chatAdded'[Len(chatAdded')]),
                        MAX_CHAT_HISTORY)]_vars

\* ------------------------------------------------------------------------
\* Properties of the reflex controller's shutdown and of social mode (SpecReflex)
\* ------------------------------------------------------------------------

\* C17 as stated: whatever mode the machine is in when ReflexManager.destroy
\* is called, the machine is in idle once the actor has been stopped, and a
\* second destroy call changes nothing.
C17_DestroyForcesIdle ==
    /\ [](reflexActor = "null" => reflexMode = "idle")
    /\ [][reflexActor = "null" => UNCHANGED reflexVars]_vars

\* The chat-recency part of canEnterSocial, on the machine's own `now`.
ChatWithin(ctx, ms) == ctx.lastMessageAt # 0 /\ ctx.now - ctx.lastMessageAt <= ms

SocialCondition(ctx) == ChatWithin(ctx, 30000) /\ ctx.nearbyPlayers > 0

\* C19: an event processed in idle leaves the mode social exactly when it
\* leaves a chat message at most 30 s before `now`, a player nearby and the
\* alert condition false, and it leaves the mode alert whenever the alert
\* condition holds, the social condition included; the machine never rests
\* in idle with either condition true.
C19_IdleToSocial ==
    /\ [][(reflexMode = "idle" /\ reflexEvent' # "none" /\ reflexActor = "running")
            => /\ reflexMode' = "social"
                    <=> (SocialCondition(reflexCtx') /\ ~AlertCondition(reflexCtx'))
               /\ AlertCondition(reflexCtx') => reflexMode' = "alert"]_vars
    /\ [](reflexMode = "idle" => (~SocialCondition(reflexCtx) /\ ~AlertCondition(reflexCtx)))

\* Social was entered from idle on an UPDATE_ENVIRONMENT that brought a
\* player near exactly 30 s after the last chat message.
C19_Witness ==
    /\ reflexMode = "social"
    /\ reflexEntered = <<"social">>
    /\ reflexEvent = "UPDATE_ENVIRONMENT"
    /\ reflexCtx.now - reflexCtx.lastMessageAt = 30000
    /\ reflexCtx.nearbyPlayers > 0
    /\ reflexCtx.lastMessageAt # 0

\* C20 as stated: a TICK that arrives in social while no task action is in
\* flight takes the machine out of social to idle, and a TICK that arrives
\* once 60 s have passed since the last chat message leaves the mode out of
\* social.
C20_SocialToIdle ==
    [][(reflexMode = "social" /\ reflexEvent' = "TICK" /\ reflexActor = "running")
         => /\ ~hasActiveActions(reflexCtx)
                 => (reflexEntered' # <<>> /\ reflexEntered'[1] = "idle")
            /\ clock - reflexCtx.lastMessageAt > 60000 => reflexMode' # "social"]_vars

\* ------------------------------------------------------------------------
\* Properties of uncounted raw events (SpecSaliency)
\* ------------------------------------------------------------------------

\* An event without a saliency rule, or one its rule's predicate rejects.
Uncounted(event) ==
    LET rule == SALIENCY_RULES(event.modality, event.kind) IN
    rule = NoRule \/ (rule.predicate /\ ~event.passes)

\* C18: a RAW_EVENT whose (modality, kind) has no saliency rule, or whose rule
\* predicate rejects it, leaves every counter and every signal count as it
\* was; no counter rests at or above its threshold, so the threshold check
\* that follows the ingest finds nothing to fire on.
C18_UncountedEventChangesNothing ==
    /\ [][\A event \in SaliencyEvents :
            (Uncounted(event) /\ PmRawEvent(event))
              => (counters' = counters /\ signals' = signals /\ accepted' = accepted)]_vars
    /\ [](\A k \in EVENT_KEYS : counters[k].total < ThresholdOf(k))

\* A sound the rule predicate rejected was processed while the sound counter
\* stood one short of its threshold.
C18_Witness ==
    /\ pmState = "collecting"
    /\ lastIgnored = "predicate"
    /\ counters["sound"].total = ThresholdOf("sound") - 1

\* ------------------------------------------------------------------------
\* Properties of the forced modes work and wander (SpecReflex)
\* ------------------------------------------------------------------------

\* work and wander are entered only as the target of the event itself, never
\* by an eventless transition, and only by MODE_OVERRIDE or TASK_STARTED.
ForcedModesOnlyByEvent ==
    [][\A i \in 1..Len(reflexEntered') :
          reflexEntered'[i] \in {"work", "wander"}
            => (i = 1 /\ reflexEvent' \in {"MODE_OVERRIDE", "TASK_STARTED"})]_vars

\* work is held exactly while actions are in flight.
WorkOnlyWithActions ==
    /\ [](reflexMode = "work" => hasActiveActions(reflexCtx))
    /\ [](hasActiveActions(reflexCtx) => reflexMode = "work")
    /\ [][(reflexMode = "work" /\ ~hasActiveActions(reflexCtx'))
            => (reflexEntered' # <<>> /\ reflexEntered'[1] = "idle")]_vars

SelectingTick == lastTick'.by = "onTick" /\ (lastTick' # lastTick \/ ranAt' # ranAt)

BehaviorOf(id) == CHOOSE b \in {behaviors[i] : i \in 1..Len(behaviors)} : b.id = id

\* C22: a behaviour is run only on a tick at which the machine's mode is one
\* of its modes, and never less than its cooldownMs after its run was last
\* called, whatever intent executions are still pending.
C22_ModeAndCooldown ==
    [][(SelectingTick /\ lastTick'.picked # "none")
         => LET b == BehaviorOf(lastTick'.picked) IN
            /\ reflexMode \in b.modes
            /\ ranAt'[b.id] = clock
            /\ ranAt[b.id] = 0 \/ clock - ranAt[b.id] >= b.cooldownMs]_vars

\* teabag has just run a second time, its cooldown over, while the intent of
\* an earlier run was still being executed.
C22_Witness ==
    /\ lastTick.picked = "teabag"
    /\ ranAt["teabag"] = 10001
    /\ ranAt["look-at"] = 5000
    /\ clock = 10001
    /\ executing = 2

NotGreetedWithin10s(speaker, t) ==
    \/ mgrCtx.lastGreetingAtBySpeaker[speaker] = 0
    \/ t - mgrCtx.lastGreetingAtBySpeaker[speaker] >= 10000

\* C24 as stated: on a tick in social mode, with no other behaviour asking to
\* run, a speaker whose last message is "hi" is greeted unless that same
\* speaker was greeted less than 10 s before, whenever other speakers were
\* greeted; and no speaker is greeted again within 10 s.
C24_GreetingPerSpeaker ==
    [][\A found \in BOOLEAN, speaker \in Speakers :
         /\ ( /\ ManagerOnTick(FALSE, found)
              /\ reflexActor = "running"
              /\ reflexMode = "social"
              /\ mgrCtx.lastSignalType = "chat_message"
              /\ mgrCtx.lastMessage = "hi"
              /\ mgrCtx.lastSpeaker = speaker
              /\ NotGreetedWithin10s(speaker, clock) )
            => /\ lastTick'.picked = "greeting"
               /\ mgrCtx'.lastGreetingAtBySpeaker[speaker] = clock
         /\ mgrCtx'.lastGreetingAtBySpeaker[speaker] # mgrCtx.lastGreetingAtBySpeaker[speaker]
            => NotGreetedWithin10s(speaker, clock)]_vars

\* ------------------------------------------------------------------------
\* Conscious machine: failed decisions and the bookkeeping of actions
\* ------------------------------------------------------------------------

\* The decide call of the current event ends without a response: its last
\* attempt threw an error that is not retried, or the service returned nothing.
DecideGivesUp ==
    /\ cInvoke = "callLLM"
    /\ cInvoke' # "callLLM"
    /\ decideOutcomes' # decideOutcomes
    /\ decideOutcomes'[Len(decideOutcomes')] # "ok"

\* C25: for one dequeued event the reasoning service is called at most
\* maxAttempts times; a further call follows a failed one only when its error
\* reads as recoverable; and when the decide call gives up (attempts exhausted
\* or error not recoverable) the machine leaves deciding through idle with the
\* event cleared and the retry count 0.
C25_BoundedRetriesThenIdle ==
    /\ [](llmCalls <= maxAttempts)
    /\ [][(llmCalls >= 1 /\ llmCalls' = llmCalls + 1)
            => /\ isLikelyRecoverableError(lastError')
               /\ decideOutcomes' = Append(decideOutcomes, ErrorKind(lastError'))]_vars
    /\ [][DecideGivesUp
            => /\ cState' \in {"idle", "thinking"}
               /\ cCtx'.retryCount = 0
               /\ cCtx'.currentEvent = 0 \/ dequeuedLog' # dequeuedLog]_vars

\* What a decision may change of the context: the blackboard and the actions.
DecisionState(ctx) ==
    <<ctx.blackboard, ctx.pendingActions, ctx.inFlightActions, ctx.nextActionId>>

\* C26: from deciding, every step other than a successful decision (a failed
\* attempt that is retried, the failure of the whole decide call, an event
\* enqueued meanwhile) leaves the machine's blackboard, pendingActions,
\* inFlightActions and nextActionId as they were.
C26_FailedDecisionChangesNothing ==
    [][(cState = "deciding" /\ decideOutcomes' # Append(decideOutcomes, "ok"))
         => DecisionState(cCtx') = DecisionState(cCtx)]_vars

\* A first decision named a task and one action, which completed; the decision
\* for the second event failed three times and was given up.
C26_Witness ==
    /\ cState = "deciding"
    /\ cInvoke = "none"
    /\ decideOutcomes = <<"transient", "transient", "transient">>
    /\ Len(dequeuedLog) = 2
    /\ DecisionState(cCtx) = <<[currentTask |-> 1], {}, {}, 2>>

\* C27: in executing, ACTION_STARTED for a pending action moves its id from
\* pendingActions to inFlightActions, and the two sets never share an id.
C27_StartedMovesToInFlight ==
    /\ [](cCtx.pendingActions \cap cCtx.inFlightActions = {})
    /\ [][\A actionId \in 1..MaxActionId :
            (/\ cState = "executing" /\ cStatus = "active"
             /\ actionId \in cCtx.pendingActions
             /\ CActionStarted(actionId))
            => /\ actionId \in cCtx'.inFlightActions
               /\ actionId \notin cCtx'.pendingActions]_vars

\* C28: in executing, ACTION_COMPLETED and ACTION_FAILED alike remove the id
\* they carry from pendingActions and from inFlightActions.
C28_CompletedAndFailedRemove ==
    [][\A actionId \in 1..MaxActionId :
         (/\ cState = "executing" /\ cStatus = "active"
          /\ CActionCompleted(actionId) \/ CActionFailed(actionId))
         => actionId \notin cCtx'.pendingActions \cup cCtx'.inFlightActions]_vars

\* C29: with an executor that reports completion or failure of every action,
\* the machine eventually leaves executing; it leaves with no action pending
\* or in flight, for thinking when the queue holds events and for idle when
\* it is empty.
C29_ExecutingEventuallyLeft ==
    /\ (cState = "executing" /\ cStatus = "active")
         ~> (cState # "executing" \/ cStatus # "active")
    /\ [][(cState = "executing" /\ cState' # "executing")
            => /\ allActionsDone(cCtx')
               /\ cState' = IF hasQueuedEvents(cCtx) THEN "thinking" ELSE "idle"]_vars

\* ------------------------------------------------------------------------
\* Brain: the feedback barrier
\* ------------------------------------------------------------------------

HeldBy(timer) == IF timer.armed THEN {Handle(timer)} ELSE {}

\* C31: the runtime never holds more than one debounce timeout nor more than
\* one barrier timeout, and the one it holds is the one the timer field refers
\* to (a timeout replaced by re-arming is no longer held, so it cannot fire);
\* a timeout that fires is no longer held afterwards.
C31_SingleShotTimers ==
    /\ [](Cardinality(debounceTimeouts) <= 1 /\ Cardinality(barrierTimeouts) <= 1)
    /\ [](debounceTimeouts = HeldBy(feedbackDebounceTimer))
    /\ [](barrierTimeouts = HeldBy(feedbackBarrierTimer))
    /\ [][BrainTimerFires
            => \E t \in DueTimers :
                 /\ t \notin debounceTimeouts' \cup barrierTimeouts'
                 /\ debounceTimeouts' \cup barrierTimeouts'
                      = (debounceTimeouts \cup barrierTimeouts) \ {t}]_vars

\* Both timers have been armed again while armed: two feedback events within
\* the debounce delay, and a second turn awaiting feedback before the barrier
\* of the first expired.
C31_Witness ==
    /\ burst.size = 2
    /\ processEventCalls = 2
    /\ waitingForFeedbackIds = {1, 2}
    /\ awaitedFor[1] > awaitedFor[2]
    /\ Cardinality(debounceTimeouts) = 1
    /\ Cardinality(barrierTimeouts) = 1

\* C32: once Brain.destroy has run the runtime holds no debounce and no
\* barrier timeout, so no callback runs: nothing is enqueued and the awaited
\* set and the blackboard stay as they are; the actor stays stopped and
\* forgotten.
C32_DestroyCancelsTimers ==
    /\ [](consciousActor = "null" => debounceTimeouts = {} /\ barrierTimeouts = {})
    /\ [][(consciousActor = "null" /\ BrainTimerFires)
            => UNCHANGED <<enqueuedLog, waitingForFeedbackIds, blackboard>>]_vars
    /\ [][consciousActor = "null"
            => consciousActor' = "null" /\ cStatus' = "stopped"]_vars

\* ------------------------------------------------------------------------
\* Perception machine: trigger markers, idle and the slot timer
\* ------------------------------------------------------------------------

\* The buffer index (from 1) of the slot in which counter c last fired.
FireIndex(c) == (c.lastFireSlot % WINDOW_SIZE) + 1

\* C33: the step at which a counter fires sets the marker of the head slot and
\* resets the counter, leaving every other marker as it was; the marker of the
\* latest fire is set for as long as fewer than WINDOW_SIZE slot advances have
\* followed and is clear once exactly WINDOW_SIZE have; and a marker is
\* cleared by no step other than the slot advance whose new head is its index.
C33_MarkersOutliveReset ==
    /\ [][\A k \in EVENT_KEYS :
            signals'[k] # signals[k]
            => /\ counters'[k].triggers =
                    [counters[k].triggers EXCEPT ![counters[k].head + 1] = 1]
               /\ counters'[k].total = 0
               /\ counters'[k].lastFireSlot = currentSlot]_vars
    /\ [](\A k \in EVENT_KEYS :
            /\ counters[k].head = currentSlot % WINDOW_SIZE
            /\ counters[k].lastFireSlot >= 0
               => /\ currentSlot - counters[k].lastFireSlot < WINDOW_SIZE
                     => counters[k].triggers[FireIndex(counters[k])] = 1
                  /\ currentSlot - counters[k].lastFireSlot = WINDOW_SIZE
                     => counters[k].triggers[FireIndex(counters[k])] = 0)
    /\ [][\A k \in EVENT_KEYS, i \in 1..WINDOW_SIZE :
            (counters[k].triggers[i] = 1 /\ counters'[k].triggers[i] = 0)
            => /\ currentSlot' = currentSlot + 1
               /\ counters'[k].head + 1 = i]_vars

\* A counter fired in slot 1 and was reset; two slot advances and an event
\* counted since have left its marker set.
C33_Witness ==
    \E k \in EVENT_KEYS :
        /\ counters[k].lastFireSlot = 1
        /\ currentSlot = 3
        /\ counters[k].total = 1
        /\ counters[k].triggers[FireIndex(counters[k])] = 1

\* ------------------------------------------------------------------------
\* Reflex mode machine: the in-flight count, forced modes and settling
\* ------------------------------------------------------------------------

\* C34: in every settled state of the mode machine inFlightActionsCount is not
\* negative and the mode is work exactly when the count is positive.
C34_CountTracksWork ==
    /\ reflexCtx.inFlightActionsCount >= 0
    /\ reflexMode = "work" <=> reflexCtx.inFlightActionsCount > 0

\* Two tasks were started and one of them failed: the machine is still in work
\* with one action in flight.
C34_Witness ==
    /\ reflexEvent = "TASK_FAILED"
    /\ reflexMode = "work"
    /\ reflexCtx.inFlightActionsCount = 1

\* C35: a step taken in work or wander changes the mode only if its event is
\* TASK_STARTED, or (in work) a TASK_COMPLETED or TASK_FAILED that brings the
\* count to 0, or (in wander) a MODE_OVERRIDE; SIGNAL, UPDATE_CONTEXT,
\* UPDATE_ENVIRONMENT and TICK leave the mode as it is, whatever the health,
\* the threat score, the chat and the nearby players have become.
C35_ForcedModesIgnoreContext ==
    [][(reflexMode = "work" \/ reflexMode = "wander")
         => /\ (reflexMode' # reflexMode)
                 => (\/ reflexEvent' = "TASK_STARTED"
                     \/ /\ reflexMode = "work"
                        /\ reflexEvent' \in {"TASK_COMPLETED", "TASK_FAILED"}
                        /\ reflexCtx'.inFlightActionsCount = 0
                     \/ /\ reflexMode = "wander"
                        /\ reflexEvent' = "MODE_OVERRIDE")
            /\ (reflexEvent' \in {"SIGNAL", "UPDATE_CONTEXT", "UPDATE_ENVIRONMENT", "TICK"})
                 => (reflexMode' = reflexMode)]_vars

\* In wander the health has dropped below the alert threshold with a recent
\* chat message and a player nearby: the machine is still in wander.
C35_Witness ==
    /\ reflexMode = "wander"
    /\ reflexEvent = "UPDATE_CONTEXT"
    /\ canEnterAlert(reflexCtx)
    /\ reflexCtx.lastMessageAt # 0
    /\ reflexCtx.nearbyPlayers > 0

\* C36: processing one event settles after a bounded number of eventless
\* transitions. In every state the machine rests in, no eventless transition
\* is enabled any more; one event enters at most two modes and enters no mode
\* twice, so idle, alert, social and work never follow each other in a cycle
\* within one event, and the notifications of mode changes per event are
\* bounded by the same two.
C36_MacrostepSettles ==
    /\ AlwaysTarget(reflexMode, reflexCtx) = "none"
    /\ Len(reflexEntered) <= 2
    /\ \A i, j \in 1..Len(reflexEntered) :
          i # j => reflexEntered[i] # reflexEntered[j]

\* The last action in flight completes while the bot is hurt: work is left for
\* idle and idle for alert, both within the one TASK_COMPLETED.
C36_Witness ==
    /\ reflexEvent = "TASK_COMPLETED"
    /\ reflexEntered = <<"idle", "alert">>
    /\ reflexMode = "alert"
    /\ reflexCtx.inFlightActionsCount = 0

\* C37: in deciding, a failure answered with a retry starts a fresh call of
\* callLLM; the machine is never in deciding without a call outstanding; and,
\* every call settling eventually, deciding is always eventually left.
C37_DecidingRetriesCall ==
    /\ [][(/\ cState = "deciding" /\ cInvoke = "callLLM"
           /\ cState' = "deciding"
           /\ cCtx'.retryCount = cCtx.retryCount + 1)
          => cInvoke' = "callLLM"]_vars
    /\ []((cState = "deciding" /\ cStatus = "active") => cInvoke = "callLLM")
    /\ (cState = "deciding") ~> (cState # "deciding")

\* C38: an event enqueued through Brain.enqueueEvent leads to at most one
\* decision cycle. The step that hands an event to the machine never also
\* runs Brain.processEvent on it (after ENQUEUE_EVENT the machine is not idle
\* with a queued event), and the machine takes every event into thinking at
\* most once and in the order of arrival: the events dequeued so far are a
\* prefix of the events enqueued, without repetition.
C38_OneDecisionCyclePerEvent ==
    /\ [][enqueuedLog' # enqueuedLog => processEventCalls' = processEventCalls]_vars
    /\ [](/\ Len(dequeuedLog) <= Len(enqueuedLog)
          /\ dequeuedLog = SubSeq(enqueuedLog, 1, Len(dequeuedLog))
          /\ \A i, j \in 1..Len(enqueuedLog) : i # j => enqueuedLog[i] # enqueuedLog[j])

\* Two events reached the machine, the first while it was idle, and each was
\* taken into thinking once; processEvent did not run.
C38_Witness ==
    /\ Len(enqueuedLog) = 2
    /\ dequeuedLog = enqueuedLog
    /\ processEventCalls = 0
    /\ cState = "deciding"
    /\ consciousActor = "running"

\* C39: the perception machine advances its window and counts only while
\* collecting. Exactly one slot timer runs while collecting and none in idle;
\* every step taken from idle or into idle (RAW_EVENT and TICK in idle, START,
\* STOP) leaves beliefs, counters, currentSlot and the signals emitted as they
\* are, so that they are the same after STOP then START as before.
C39_WindowFrozenInIdle ==
    /\ [](slotTimers = IF pmState = "collecting" THEN 1 ELSE 0)
    /\ [][(pmState = "idle" \/ pmState' = "idle")
            => UNCHANGED <<entities, counters, currentSlot, signals>>]_vars
    /\ [][(pmState = "idle" /\ idleDrops' # idleDrops)
            => pmState' = "idle" /\ slotTimers' = 0]_vars

\* The machine collected for a slot and counted an event, was stopped, dropped
\* a TICK in idle, and is collecting again with the slot and the count it had.
C39_Witness ==
    /\ pmState = "collecting"
    /\ slotTimers = 1
    /\ idleDrops = "TICK"
    /\ currentSlot = 1
    /\ \E k \in EVENT_KEYS : counters[k].total = 1

====
